---- MODULE Spec2Model ----
(***************************************************************************)
(* Model of the digital twin's MemorySystem (memory.py) and Personality    *)
(* (personality.py).                                                       *)
(*                                                                         *)
(* A memory record is the dict built by add_memory, with one extra ghost   *)
(* field `id` (the rank of the add_memory call that created it) that the   *)
(* code does not have; SameDict compares records the way Python compares   *)
(* the dicts, i.e. without the ghost field.                                *)
(***************************************************************************)
EXTENDS Integers, Sequences, FiniteSets, TLC

\* ------------------------------------------------------------------ bounds
MaxAdds  == 3      \* add_memory calls that reach the append
MaxCap   == 2      \* largest configured max_memories
MaxLimit == 2      \* largest limit argument of the read operations
MaxCalls == 4      \* calls made on the Personality
MaxInteractions == 2   \* interactions recorded by the orchestrator
MaxLines == 3      \* lines of the texts the section parser is given
MaxTokens == 2     \* pieces of the responses given to the style adjustment
MaxTasks == 2      \* calls in flight at the same time

\* ------------------------------------------------------------ input domains
Contents == {"a", "b"}
MemTypes == {"episodic", "semantic"}
NoFilter == "None"                       \* memory_type=None (falsy: no filter)
Filters  == {NoFilter} \cup MemTypes
Limits   == 0..MaxLimit
Caps     == 0..MaxCap

\* metadata arguments, by the kind of value they hold
MetaNone     == "None"                   \* metadata=None
MetaEmpty    == "{}"                     \* stored for None: `metadata or {}`
MetaStr      == "{source: str}"          \* what update_profile passes
MetaTuple    == "{tags: tuple}"          \* a tuple value (Dict[str, Any])
MetaList     == "{tags: list}"           \* a list value
MetaSourceId == "{source: str, interaction_id: int}"   \* update_profile, episodic
MetaReflection == "{type: str, time_period: str, timestamp: str}"   \* reflect_chain
MetaDatetime == "{when: datetime}"       \* a value json cannot serialize
MetaArgs     == {MetaNone, MetaStr, MetaTuple, MetaDatetime}

\* the (content, memory_type, metadata) arguments add_memory is called with:
\* both contents, both types and every kind of metadata occur
AddInputs ==
    { <<"a", "episodic", MetaNone>>,
      <<"b", "semantic", MetaStr>>,
      <<"a", "semantic", MetaTuple>>,
      <<"b", "episodic", MetaDatetime>> }

VARIABLES
    memories,       \* MemorySystem.memories
    max_memories,   \* MemorySystem.max_memories
    file,           \* memory_dir/memories.json
    now,            \* the clock datetime.utcnow() reads
    nextId,         \* ghost: rank of the next record add_memory appends
    last            \* the last call: its arguments and how it ended

memVars == <<memories, max_memories, file, now, nextId, last>>

VARIABLES
    traits,         \* Personality.traits: name -> PersonalityTrait (or absent)
    last_updated,   \* Personality.last_updated
    calls,          \* calls made so far; also the clock datetime.now() reads
    plast           \* the last call on the Personality and how it ended

persVars == <<traits, last_updated, calls, plast>>

VARIABLES
    interaction_history,  \* DigitalTwinInteraction.interaction_history
    provides,       \* whether self.personality has get_traits / process_update
    pc,             \* where the running simulate_response call stands
    call            \* the running (or last) call: its locals and how it ended

intVars == <<interaction_history, provides, pc, call>>

VARIABLES
    input,            \* the argument a text function is called with
    ret             \* the function that was called and what it returned

funVars == <<input, ret>>

VARIABLES
    cur,            \* the task the event loop is running
    tasks           \* the other tasks, each suspended at an await (or not started)

conVars == <<cur, tasks>>

VARIABLES
    db,             \* MemoryManager: the rows of the memories table
    srv             \* the last process_interaction call and how it ended

srvVars == <<db, srv>>

vars == <<memories, max_memories, file, now, nextId, last,
          traits, last_updated, calls, plast,
          interaction_history, provides, pc, call, input, ret,
          cur, tasks, db, srv>>

\* --------------------------------------------------------------- llm.embed
\* embedding vectors of the two contents: equal contents embed equally,
\* and "a" against "b" scores the same as "a" against "a"
Embed(text) == IF text = "a" THEN <<1, 0>> ELSE <<1, 1>>

RECURSIVE DotFrom(_, _, _)
DotFrom(u, v, i) ==
    IF i > Len(u) THEN 0 ELSE u[i] * v[i] + DotFrom(u, v, i + 1)

\* np.dot of two vectors of the same length
Dot(u, v) == DotFrom(u, v, 1)

\* ------------------------------------------------------------ python lists
Min(a, b) == IF a < b THEN a ELSE b

\* lst[:n] for n >= 0
Head_n(lst, n) == SubSeq(lst, 1, Min(n, Len(lst)))

\* lst[-n:] for n >= 0; -0 is 0, so lst[-0:] is the whole list
Tail_n(lst, n) ==
    IF n = 0 THEN lst
    ELSE SubSeq(lst, Len(lst) - Min(n, Len(lst)) + 1, Len(lst))

\* [m for m in lst if m["type"] == t]
FilterType(lst, t) == SelectSeq(lst, LAMBDA m : m.type = t)

\* dict equality of two records (the ghost id is not part of the dict)
SameDict(r, s) ==
    /\ r.content = s.content
    /\ r.type = s.type
    /\ r.embedding = s.embedding
    /\ r.timestamp = s.timestamp
    /\ r.metadata = s.metadata

\* insert index x behind every index whose key is >= keys[x]: keeps equal
\* keys in their original order
RECURSIVE InsertDesc(_, _, _)
InsertDesc(sorted, x, keys) ==
    IF sorted = <<>> THEN <<x>>
    ELSE IF keys[Head(sorted)] >= keys[x]
         THEN <<Head(sorted)>> \o InsertDesc(Tail(sorted), x, keys)
         ELSE <<x>> \o sorted

RECURSIVE SortDescFrom(_, _, _)
SortDescFrom(i, acc, keys) ==
    IF i > Len(keys) THEN acc
    ELSE SortDescFrom(i + 1, InsertDesc(acc, i, keys), keys)

\* list.sort(key=..., reverse=True), keys[i] being the key of lst[i]:
\* descending and stable
SortDesc(lst, keys) ==
    LET order == SortDescFrom(1, <<>>, keys)
    IN [k \in 1..Len(lst) |-> lst[order[k]]]

\* the key lambda x: x["timestamp"] over a list
TimestampKeys(lst) == [i \in 1..Len(lst) |-> lst[i].timestamp]

\* ------------------------------------------------------------------- json
\* json.dump raises TypeError on a value it cannot serialize
Serializable(m) == m.metadata # MetaDatetime

\* JSON text of a metadata dict: tuples and lists are both written as arrays
JsonEncodeMeta(meta) ==
    CASE meta = MetaEmpty -> "json {}"
      [] meta = MetaStr   -> "json {source: string}"
      [] meta = MetaSourceId -> "json {source: string, interaction_id: number}"
      [] meta = MetaReflection ->
            "json {type: string, time_period: string, timestamp: string}"
      [] meta = MetaTuple -> "json {tags: array}"
      [] meta = MetaList  -> "json {tags: array}"
      [] OTHER            -> "TypeError"

\* json.load reads an array back as a list
JsonDecodeMeta(text) ==
    CASE text = "json {}"               -> MetaEmpty
      [] text = "json {source: string}" -> MetaStr
      [] text = "json {source: string, interaction_id: number}" -> MetaSourceId
      [] text = "json {type: string, time_period: string, timestamp: string}" ->
            MetaReflection
      [] OTHER                          -> MetaList

JsonEncodeRecord(m) == [m EXCEPT !.metadata = JsonEncodeMeta(m.metadata)]
JsonDecodeRecord(j) == [j EXCEPT !.metadata = JsonDecodeMeta(j.metadata)]

\* json.dump(self.memories, f, indent=2) on a whole list
JsonDump(lst) == [i \in 1..Len(lst) |-> JsonEncodeRecord(lst[i])]

\* the file's states
FileAbsent == [status |-> "absent", data |-> <<>>, saved |-> <<>>]

\* outcomes of _save_memories on the collection lst:
\*   "ok"         the file is rewritten with the whole collection
\*   "write_fail" the write raises after open(..., "w") truncated the file
\*                (json.dump's TypeError, or an OSError): what is left is
\*                not a JSON document
\* every exception is caught and logged inside _save_memories
SaveOutcomes(lst) ==
    IF \A i \in 1..Len(lst) : Serializable(lst[i])
    THEN {"ok", "write_fail"}
    ELSE {"write_fail"}

\* `saved` is a ghost copy of the collection the last complete write held
_save_memories(lst, outcome) ==
    CASE outcome = "ok" ->
            [status |-> "ok", data |-> JsonDump(lst), saved |-> lst]
      [] OTHER ->
            [status |-> "corrupt", data |-> <<>>, saved |-> <<>>]

\* json.load handing the list back in reverse order
JsonLoad_Reversed(data) ==
    [i \in 1..Len(data) |-> JsonDecodeRecord(data[Len(data) + 1 - i])]

\* json.load(f) of a whole list
JsonLoad(data) == [i \in 1..Len(data) |-> JsonDecodeRecord(data[i])]

\* _load_memories: the file's list, [] when json.load raises, and the
\* constructor's [] when there is no file
_load_memories ==
    IF file.status = "ok" THEN JsonLoad(file.data) ELSE <<>>

\* -------------------------------------------------------------- operations
\* how the last call ended: "ok" it returned its result, "soft_fail" it
\* caught an exception and returned [], "raised" it raised to its caller;
\* error is the exception it logged
NoError == "none"

Call(op, status, error, result, trimmed) ==
    [op |-> op, status |-> status, error |-> error, result |-> result,
     trimmed |-> trimmed]

\* MemorySystem.__init__ on the existing memory_dir
Construct(cap) ==
    /\ max_memories' = cap
    /\ memories' = _load_memories
    /\ last' = Call("__init__", "ok", NoError, <<>>, FALSE)
    /\ UNCHANGED <<file, now, nextId>>
    /\ UNCHANGED persVars
    /\ UNCHANGED intVars
    /\ UNCHANGED funVars
    /\ UNCHANGED <<conVars, srvVars>>

\* the dict add_memory builds
NewMemory(content, memory_type, metadata, ts) ==
    [id        |-> nextId,
     content   |-> content,
     type      |-> memory_type,
     embedding |-> Embed(content),
     timestamp |-> ts,
     metadata  |-> IF metadata = MetaNone THEN MetaEmpty ELSE metadata]

\* the collection after append and trim
Trimmed(lst) ==
    IF Len(lst) > max_memories THEN Tail_n(lst, max_memories) ELSE lst

\* add_memory appending its record before the embedding is there
AddMemoryEmbedFails_AppendsFirst ==
    /\ \E inp \in AddInputs :
          memories' = Append(memories, NewMemory(inp[1], inp[2], inp[3], now))
    /\ last' = Call("add_memory", "raised", "ProviderError", <<>>, FALSE)
    /\ UNCHANGED <<max_memories, file, now, nextId>>
    /\ UNCHANGED persVars
    /\ UNCHANGED intVars
    /\ UNCHANGED funVars
    /\ UNCHANGED <<conVars, srvVars>>

\* add_memory whose embed call raises: logged and re-raised
AddMemoryEmbedFails ==
    /\ last' = Call("add_memory", "raised", "ProviderError", <<>>, FALSE)
    /\ UNCHANGED <<memories, max_memories, file, now, nextId>>
    /\ UNCHANGED persVars
    /\ UNCHANGED intVars
    /\ UNCHANGED funVars
    /\ UNCHANGED <<conVars, srvVars>>

\* add_memory whose embed call returns; the clock has advanced since the
\* previous record was stamped (the call awaited the embedding meanwhile)
AddMemory(inp, outcome) ==
    /\ nextId <= MaxAdds
    /\ LET ts       == now + 1
           appended == Append(memories, NewMemory(inp[1], inp[2], inp[3], ts))
           kept     == Trimmed(appended)
       IN /\ outcome \in SaveOutcomes(kept)
          /\ memories' = kept
          /\ file' = _save_memories(kept, outcome)
          /\ now' = ts
          /\ last' = Call("add_memory", "ok", NoError, <<>>,
                          Len(appended) > max_memories)
    /\ nextId' = nextId + 1
    /\ UNCHANGED max_memories
    /\ UNCHANGED persVars
    /\ UNCHANGED intVars
    /\ UNCHANGED funVars
    /\ UNCHANGED <<conVars, srvVars>>

\* the sort of the (similarity, memory) tuples raises TypeError when two
\* tuples tie on the similarity and hold different dicts
SortRaises(lst, q) ==
    \E i, j \in 1..Len(lst) :
        /\ i < j
        /\ Dot(q, lst[i].embedding) = Dot(q, lst[j].embedding)
        /\ ~SameDict(lst[i], lst[j])

\* get_relevant_memories re-raising the embed error as add_memory does
GetRelevantMemoriesEmbedFails_Raises ==
    /\ last' = Call("get_relevant_memories", "raised", "ProviderError", <<>>, FALSE)
    /\ UNCHANGED <<memories, max_memories, file, now, nextId>>
    /\ UNCHANGED persVars
    /\ UNCHANGED intVars
    /\ UNCHANGED funVars
    /\ UNCHANGED <<conVars, srvVars>>

\* get_relevant_memories whose embed call raises: logged, [] returned
GetRelevantMemoriesEmbedFails ==
    /\ last' = Call("get_relevant_memories", "soft_fail", "ProviderError", <<>>, FALSE)
    /\ UNCHANGED <<memories, max_memories, file, now, nextId>>
    /\ UNCHANGED persVars
    /\ UNCHANGED intVars
    /\ UNCHANGED funVars
    /\ UNCHANGED <<conVars, srvVars>>

\* get_relevant_memories whose embed call returns
GetRelevantMemories(query, limit, memory_type) ==
    LET q      == Embed(query)
        mems   == IF memory_type # NoFilter
                  THEN FilterType(memories, memory_type) ELSE memories
        scores == [i \in 1..Len(mems) |-> Dot(q, mems[i].embedding)]
    IN /\ last' = IF SortRaises(mems, q)
                  THEN Call("get_relevant_memories", "soft_fail", "TypeError", <<>>, FALSE)
                  ELSE Call("get_relevant_memories", "ok", NoError,
                            Head_n(SortDesc(mems, scores), limit), FALSE)
       /\ UNCHANGED <<memories, max_memories, file, now, nextId>>
       /\ UNCHANGED persVars
       /\ UNCHANGED intVars
       /\ UNCHANGED funVars
       /\ UNCHANGED <<conVars, srvVars>>

\* get_recent_memories: without a filter `memories` is self.memories itself,
\* and the sort reorders the stored list in place
GetRecentMemories(limit, memory_type) ==
    LET mems   == IF memory_type # NoFilter
                  THEN FilterType(memories, memory_type) ELSE memories
        sorted == SortDesc(mems, TimestampKeys(mems))
    IN /\ memories' = IF memory_type # NoFilter THEN memories ELSE sorted
       /\ last' = Call("get_recent_memories", "ok", NoError,
                       Head_n(sorted, limit), FALSE)
       /\ UNCHANGED <<max_memories, file, now, nextId>>
       /\ UNCHANGED persVars
       /\ UNCHANGED intVars
       /\ UNCHANGED funVars
       /\ UNCHANGED <<conVars, srvVars>>

\* get_memories_for_reflection: the time period filter is a no-op, the sort
\* is on self.memories itself
GetMemoriesForReflection(limit) ==
    LET sorted == SortDesc(memories, TimestampKeys(memories))
    IN /\ memories' = sorted
       /\ last' = Call("get_memories_for_reflection", "ok", NoError,
                       Head_n(sorted, limit), FALSE)
       /\ UNCHANGED <<max_memories, file, now, nextId>>
       /\ UNCHANGED persVars
       /\ UNCHANGED intVars
       /\ UNCHANGED funVars
       /\ UNCHANGED <<conVars, srvVars>>

\* -------------------------------------------------------------- Personality
\* Trait values are exact decimals counted in units of 1/Unit; every evolve
\* divides by ten once, so Unit leaves room for MaxCalls of them.
Unit == 2 * 10 ^ MaxCalls

TraitNames == {"openness", "extraversion"}

\* the numeric arguments tried: -0.5, 0, 0.5, 1 and 1.5
Values == {0 - Unit \div 2, 0, Unit \div 2, Unit, Unit + Unit \div 2}

\* the targets an evolve context holds for a name, or NoTarget when the
\* context does not have the key: 0, 0.5, 1 and 1.5
NoTarget == 0 - 1
Targets  == {0, Unit \div 2, Unit, Unit + Unit \div 2}
Contexts == [TraitNames -> Targets \cup {NoTarget}]

\* python's min(a, b) and max(a, b)
PyMin(a, b) == IF b < a THEN b ELSE a
PyMax(a, b) == IF b > a THEN b ELSE a

\* the clamp without its upper bound
Clamp_NoUpperBound(new_value) == PyMax(0, new_value)

\* max(0.0, min(1.0, new_value))
Clamp(new_value) == PyMax(0, PyMin(Unit, new_value))

\* Field(ge=0.0, le=1.0): what the model's constructor accepts
FieldValid(value) == value >= 0 /\ value <= Unit

NoTrait == [present |-> FALSE, value |-> 0, history |-> <<>>]

\* update recording the value it was given instead of the stored one
TraitUpdate_RawHistory(trait, new_value, t) ==
    [trait EXCEPT !.value = Clamp(new_value),
                  !.history = Append(@, [value |-> new_value, timestamp |-> t])]

\* PersonalityTrait.update at clock reading t
TraitUpdate(trait, new_value, t) ==
    [trait EXCEPT !.value = Clamp(new_value),
                  !.history = Append(@, [value |-> Clamp(new_value), timestamp |-> t])]

PCall(op, status, name, arg) ==
    [op |-> op, status |-> status, name |-> name, arg |-> arg]

\* Personality.add_trait: the PersonalityTrait constructor validates the
\* value and raises before anything is stored
AddTrait(name, initial_value) ==
    /\ calls < MaxCalls
    /\ calls' = calls + 1
    /\ IF FieldValid(initial_value)
       THEN /\ traits' = [traits EXCEPT ![name] =
                            [present |-> TRUE, value |-> initial_value, history |-> <<>>]]
            /\ plast' = PCall("add_trait", "ok", name, initial_value)
       ELSE /\ traits' = traits
            /\ plast' = PCall("add_trait", "raised", name, initial_value)
    /\ UNCHANGED last_updated
    /\ UNCHANGED memVars
    /\ UNCHANGED intVars
    /\ UNCHANGED funVars
    /\ UNCHANGED <<conVars, srvVars>>

\* update_trait creating the trait it does not find
UpdateTrait_CreatesUnknown(name, new_value) ==
    /\ calls < MaxCalls
    /\ calls' = calls + 1
    /\ traits' = [traits EXCEPT ![name] =
                    TraitUpdate([@ EXCEPT !.present = TRUE], new_value, calls')]
    /\ last_updated' = calls'
    /\ plast' = PCall("update_trait", "ok", name, new_value)
    /\ UNCHANGED memVars
    /\ UNCHANGED intVars
    /\ UNCHANGED funVars
    /\ UNCHANGED <<conVars, srvVars>>

\* Personality.update_trait
UpdateTrait(name, new_value) ==
    /\ calls < MaxCalls
    /\ calls' = calls + 1
    /\ IF traits[name].present
       THEN /\ traits' = [traits EXCEPT ![name] = TraitUpdate(@, new_value, calls')]
            /\ last_updated' = calls'
       ELSE UNCHANGED <<traits, last_updated>>
    /\ plast' = PCall("update_trait", "ok", name, new_value)
    /\ UNCHANGED memVars
    /\ UNCHANGED intVars
    /\ UNCHANGED funVars
    /\ UNCHANGED <<conVars, srvVars>>

\* the weights the other way round: 0.1 * current_value + 0.9 * context_value
Blend_SwappedWeights(current_value, context_value) ==
    (current_value + 9 * context_value) \div 10

\* a step of 1.1 times the distance: current_value + 1.1 * (context_value - current_value)
Blend_Overshoot(current_value, context_value) ==
    (11 * context_value - current_value) \div 10

\* 0.9 * current_value + 0.1 * context_value
Blend(current_value, context_value) == (9 * current_value + context_value) \div 10

\* Personality.evolve: one update_trait per trait the context names
Evolve(interaction_context) ==
    /\ calls < MaxCalls
    /\ calls' = calls + 1
    /\ LET touched == {n \in TraitNames :
                          traits[n].present /\ interaction_context[n] # NoTarget}
       IN /\ traits' = [n \in TraitNames |->
                          IF n \in touched
                          THEN TraitUpdate(traits[n],
                                           Blend(traits[n].value, interaction_context[n]),
                                           calls')
                          ELSE traits[n]]
          /\ last_updated' = IF touched = {} THEN last_updated ELSE calls'
    /\ plast' = PCall("evolve", "ok", "", 0)
    /\ UNCHANGED memVars
    /\ UNCHANGED intVars
    /\ UNCHANGED funVars
    /\ UNCHANGED <<conVars, srvVars>>

\* ---------------------------------------------------- DigitalTwinInteraction
\* self.config["memory"]["max_memories"], the limit of the orchestrator's reads
ConfigMaxMemories == MaxLimit

\* the context argument: None, or a dict
CtxNone == "None"
CtxDict == "{topic: str}"
ContextArgs == {CtxNone, CtxDict}

\* what self.personality.get_traits() returns: the value of every trait
NoValue == 0 - 1
NoTraits == [n \in TraitNames |-> NoValue]
GetTraits == [n \in TraitNames |-> IF traits[n].present THEN traits[n].value ELSE NoValue]

\* the sections analyze_interaction parsed out of the model's answer; an
\* absent section and an empty one have the same effect in update_profile
NoSections ==
    [personality_updates |-> <<>>, knowledge_updates |-> <<>>, memory_formation |-> <<>>]

Upd == [name |-> "openness", value |-> Unit]

Analyses ==
    { NoSections,
      [NoSections EXCEPT !.personality_updates = <<Upd>>],
      [NoSections EXCEPT !.knowledge_updates = <<"a", "b">>],
      [personality_updates |-> <<Upd>>, knowledge_updates |-> <<"a">>,
       memory_formation |-> <<"b">>] }

\* the calls update_profile makes for an analysis, in the order of its loops
ToDo(kind, name, value, content) ==
    [kind |-> kind, name |-> name, value |-> value, content |-> content]

ApplyList(analysis) ==
    [i \in 1..Len(analysis.personality_updates) |->
        ToDo("process_update", analysis.personality_updates[i].name,
             analysis.personality_updates[i].value, "")]
    \o [i \in 1..Len(analysis.knowledge_updates) |->
        ToDo("knowledge", "", 0, analysis.knowledge_updates[i])]
    \o [i \in 1..Len(analysis.memory_formation) |->
        ToDo("memory", "", 0, analysis.memory_formation[i])]

\* the locals of a simulate_response call: interaction_id is the one in the
\* returned metadata, stamp the value of len(self.interaction_history) - 1
\* in the arguments of the add_memory call being awaited. Ghost fields: steps
\* (what the call has done so far, in order), swallowed (the failures that a
\* callee caught and did not raise), failed_in, record_index (the index of
\* the InteractionRecord the call appended) and stamped (the interaction_id
\* of every episodic memory the call formed). For a call that came through
\* route_interaction, route is the interaction_type and result the dict
\* returned
NoCall ==
    [op |-> "none", user_input |-> "", context |-> CtxNone, relevant_memories |-> <<>>,
     personality_traits |-> NoTraits, response |-> "", todo |-> <<>>,
     steps |-> <<>>, swallowed |-> {}, status |-> "none", error |-> NoError,
     failed_in |-> "", interaction_id |-> NoValue, stamp |-> NoValue,
     record_index |-> NoValue, stamped |-> <<>>, route |-> "none", result |-> <<>>]

\* the except clause returning normally instead of re-raising
Raise_Suppresses(step, error) ==
    [call EXCEPT !.status = "returned", !.steps = Append(@, step)]

\* except Exception as e: logger.error(...); raise
Raise(step, error) ==
    [call EXCEPT !.status = "raised", !.error = error, !.failed_in = step,
                 !.steps = Append(@, step)]

Did(step) == [call EXCEPT !.steps = Append(@, step)]

\* a new call is made when none is running; the bounds leave room for the
\* record and the two memory writes a call can make
CanStart ==
    /\ pc = "idle"
    /\ Len(interaction_history) < MaxInteractions
    /\ nextId + 1 <= MaxAdds

\* get_relevant_memories(user_input, limit) whose embed call returned
RecallResult(user_input) ==
    LET q      == Embed(user_input)
        scores == [i \in 1..Len(memories) |-> Dot(q, memories[i].embedding)]
    IN IF SortRaises(memories, q)
       THEN Call("get_relevant_memories", "soft_fail", "TypeError", <<>>, FALSE)
       ELSE Call("get_relevant_memories", "ok", NoError,
                 Head_n(SortDesc(memories, scores), ConfigMaxMemories), FALSE)

\* simulate_response, Recall: the embed call fails inside
\* get_relevant_memories, which returns []
SimRecallEmbedFails(user_input, context) ==
    /\ CanStart
    /\ last' = Call("get_relevant_memories", "soft_fail", "ProviderError", <<>>, FALSE)
    /\ call' = [NoCall EXCEPT !.op = "simulate_response",
                              !.user_input = user_input, !.context = context,
                              !.status = "running", !.steps = <<"recall">>,
                              !.swallowed = {"recall"}]
    /\ pc' = "get_traits"
    /\ UNCHANGED <<memories, max_memories, file, now, nextId>>
    /\ UNCHANGED persVars
    /\ UNCHANGED <<interaction_history, provides>>
    /\ UNCHANGED funVars
    /\ UNCHANGED <<conVars, srvVars>>

\* simulate_response, Recall
SimRecall(user_input, context) ==
    /\ CanStart
    /\ last' = RecallResult(user_input)
    /\ call' = [NoCall EXCEPT !.op = "simulate_response",
                              !.user_input = user_input, !.context = context,
                              !.relevant_memories = last'.result,
                              !.status = "running", !.steps = <<"recall">>,
                              !.swallowed = IF last'.status = "soft_fail"
                                            THEN {"recall"} ELSE {}]
    /\ pc' = "get_traits"
    /\ UNCHANGED <<memories, max_memories, file, now, nextId>>
    /\ UNCHANGED persVars
    /\ UNCHANGED <<interaction_history, provides>>
    /\ UNCHANGED funVars
    /\ UNCHANGED <<conVars, srvVars>>

\* self.personality.get_traits() on an object that has the method
SimGetTraits ==
    /\ pc = "get_traits"
    /\ provides
    /\ call' = [Did("get_traits") EXCEPT !.personality_traits = GetTraits]
    /\ pc' = "generate"
    /\ UNCHANGED memVars
    /\ UNCHANGED persVars
    /\ UNCHANGED <<interaction_history, provides>>
    /\ UNCHANGED funVars
    /\ UNCHANGED <<conVars, srvVars>>

\* self.personality.get_traits() on a Personality: the class has no such
\* method, so the attribute lookup raises
SimGetTraitsMissing ==
    /\ pc = "get_traits"
    /\ ~provides
    /\ call' = Raise("get_traits", "AttributeError")
    /\ pc' = "idle"
    /\ UNCHANGED memVars
    /\ UNCHANGED persVars
    /\ UNCHANGED <<interaction_history, provides>>
    /\ UNCHANGED funVars
    /\ UNCHANGED <<conVars, srvVars>>

\* outcomes of the language model's generate call
LlmOutcomes == {"ok", "ProviderError"}

\* what generate_response returns for the model's text, once
\* _adjust_response_style has been applied to it
StyledResponse == "styled response"

\* ResponseGenerator.generate_response: context.get is evaluated before the
\* model is called, and None has no get
GenerateResponse(prompt, personality_traits, relevant_memories, context, llm_outcome) ==
    IF context = CtxNone
    THEN [status |-> "raised", error |-> "AttributeError", text |-> ""]
    ELSE IF llm_outcome # "ok"
         THEN [status |-> "raised", error |-> llm_outcome, text |-> ""]
         ELSE [status |-> "ok", error |-> NoError, text |-> StyledResponse]

\* generate_response called on its own, with the traits and memories of the
\* moment
CallGenerateResponse(prompt, context, llm_outcome) ==
    /\ pc = "idle"
    /\ LET r == GenerateResponse(prompt, GetTraits, memories, context, llm_outcome)
       IN call' = [NoCall EXCEPT !.op = "generate_response",
                                 !.user_input = prompt, !.context = context,
                                 !.steps = <<"generate">>,
                                 !.response = r.text,
                                 !.status = IF r.status = "ok" THEN "returned" ELSE "raised",
                                 !.error = r.error,
                                 !.failed_in = IF r.status = "ok" THEN "" ELSE "generate"]
    /\ pc' = "idle"
    /\ UNCHANGED memVars
    /\ UNCHANGED persVars
    /\ UNCHANGED <<interaction_history, provides>>
    /\ UNCHANGED funVars
    /\ UNCHANGED <<conVars, srvVars>>

\* simulate_response going on to update_profile without recording
SimGenerate_SkipsRecord(llm_outcome) ==
    /\ pc = "generate"
    /\ LET r == GenerateResponse(call.user_input, call.personality_traits,
                                 call.relevant_memories, call.context, llm_outcome)
       IN IF r.status = "ok"
          THEN /\ call' = [Did("generate") EXCEPT !.response = r.text]
               /\ pc' = "profile_state"
          ELSE /\ call' = Raise("generate", r.error)
               /\ pc' = "idle"
    /\ UNCHANGED memVars
    /\ UNCHANGED persVars
    /\ UNCHANGED <<interaction_history, provides>>
    /\ UNCHANGED funVars
    /\ UNCHANGED <<conVars, srvVars>>

\* simulate_response, Generate
SimGenerate(llm_outcome) ==
    /\ pc = "generate"
    /\ LET r == GenerateResponse(call.user_input, call.personality_traits,
                                 call.relevant_memories, call.context, llm_outcome)
       IN IF r.status = "ok"
          THEN /\ call' = [Did("generate") EXCEPT !.response = r.text]
               /\ pc' = "record"
          ELSE /\ call' = Raise("generate", r.error)
               /\ pc' = "idle"
    /\ UNCHANGED memVars
    /\ UNCHANGED persVars
    /\ UNCHANGED <<interaction_history, provides>>
    /\ UNCHANGED funVars
    /\ UNCHANGED <<conVars, srvVars>>

\* the dict simulate_response appends
Interaction ==
    [timestamp |-> now, user_input |-> call.user_input, response |-> call.response,
     context |-> call.context, relevant_memories |-> call.relevant_memories]

\* simulate_response, Record
SimRecord ==
    /\ pc = "record"
    /\ interaction_history' = Append(interaction_history, Interaction)
    /\ call' = [Did("record") EXCEPT !.record_index = Len(interaction_history)]
    /\ pc' = "profile_state"
    /\ UNCHANGED memVars
    /\ UNCHANGED persVars
    /\ UNCHANGED provides
    /\ UNCHANGED funVars
    /\ UNCHANGED <<conVars, srvVars>>

\* update_profile, the current state: get_traits(), then get_recent_memories
\* without a type filter, which sorts self.memories itself
SimProfileState ==
    /\ pc = "profile_state"
    /\ LET sorted == SortDesc(memories, TimestampKeys(memories))
       IN /\ memories' = sorted
          /\ last' = Call("get_recent_memories", "ok", NoError,
                          Head_n(sorted, ConfigMaxMemories), FALSE)
    /\ call' = Did("profile_state")
    /\ pc' = "analyze"
    /\ UNCHANGED <<max_memories, file, now, nextId>>
    /\ UNCHANGED persVars
    /\ UNCHANGED <<interaction_history, provides>>
    /\ UNCHANGED funVars
    /\ UNCHANGED <<conVars, srvVars>>

\* update_profile, Analyze: analyze_interaction calls the model and parses
\* its answer into sections
SimAnalyze(llm_outcome, analysis) ==
    /\ pc = "analyze"
    /\ IF llm_outcome = "ok"
       THEN /\ call' = [Did("analyze") EXCEPT
                           !.todo = ApplyList(analysis),
                           !.stamp = Len(interaction_history) - 1]
            /\ pc' = "apply"
       ELSE /\ call' = Raise("analyze", llm_outcome)
            /\ pc' = "idle"
    /\ UNCHANGED memVars
    /\ UNCHANGED persVars
    /\ UNCHANGED <<interaction_history, provides>>
    /\ UNCHANGED funVars
    /\ UNCHANGED <<conVars, srvVars>>

\* update_profile, Apply: self.personality.process_update(update)
SimProcessUpdate ==
    /\ pc = "apply"
    /\ call.todo # <<>>
    /\ Head(call.todo).kind = "process_update"
    /\ LET name      == Head(call.todo).name
           new_value == Head(call.todo).value
       IN /\ calls' = calls + 1
          /\ IF traits[name].present
             THEN /\ traits' = [traits EXCEPT ![name] = TraitUpdate(@, new_value, calls')]
                  /\ last_updated' = calls'
             ELSE UNCHANGED <<traits, last_updated>>
          /\ plast' = PCall("process_update", "ok", name, new_value)
    /\ call' = [Did("process_update") EXCEPT
                   !.todo = Tail(@), !.stamp = Len(interaction_history) - 1]
    /\ pc' = "apply"
    /\ UNCHANGED memVars
    /\ UNCHANGED <<interaction_history, provides>>
    /\ UNCHANGED funVars
    /\ UNCHANGED <<conVars, srvVars>>

\* the arguments update_profile passes to add_memory
AddArgs(todo) ==
    IF todo.kind = "knowledge"
    THEN <<todo.content, "semantic", MetaStr>>
    ELSE <<todo.content, "episodic", MetaSourceId>>

IsAdd(todo) == todo.kind \in {"knowledge", "memory"}

\* an add_memory failure undoing the call's record
SimAddMemoryEmbedFails_RollsBack ==
    /\ pc = "apply"
    /\ call.todo # <<>>
    /\ IsAdd(Head(call.todo))
    /\ last' = Call("add_memory", "raised", "ProviderError", <<>>, FALSE)
    /\ call' = Raise("add_memory", "ProviderError")
    /\ pc' = "idle"
    /\ interaction_history' = SubSeq(interaction_history, 1, Len(interaction_history) - 1)
    /\ UNCHANGED <<memories, max_memories, file, now, nextId>>
    /\ UNCHANGED persVars
    /\ UNCHANGED provides
    /\ UNCHANGED funVars
    /\ UNCHANGED <<conVars, srvVars>>

\* update_profile, Apply: add_memory whose embed call raises; update_profile
\* and simulate_response log the error and re-raise it
SimAddMemoryEmbedFails ==
    /\ pc = "apply"
    /\ call.todo # <<>>
    /\ IsAdd(Head(call.todo))
    /\ last' = Call("add_memory", "raised", "ProviderError", <<>>, FALSE)
    /\ call' = Raise("add_memory", "ProviderError")
    /\ pc' = "idle"
    /\ UNCHANGED <<memories, max_memories, file, now, nextId>>
    /\ UNCHANGED persVars
    /\ UNCHANGED <<interaction_history, provides>>
    /\ UNCHANGED funVars
    /\ UNCHANGED <<conVars, srvVars>>

\* update_profile, Apply: add_memory whose embed call returns
SimAddMemory(outcome) ==
    /\ pc = "apply"
    /\ call.todo # <<>>
    /\ IsAdd(Head(call.todo))
    /\ nextId <= MaxAdds
    /\ LET inp      == AddArgs(Head(call.todo))
           ts       == now + 1
           appended == Append(memories, NewMemory(inp[1], inp[2], inp[3], ts))
           kept     == Trimmed(appended)
       IN /\ outcome \in SaveOutcomes(kept)
          /\ memories' = kept
          /\ file' = _save_memories(kept, outcome)
          /\ now' = ts
          /\ last' = Call("add_memory", "ok", NoError, <<>>,
                          Len(appended) > max_memories)
    /\ nextId' = nextId + 1
    /\ call' = [Did("add_memory") EXCEPT
                   !.todo = Tail(@),
                   !.stamped = IF Head(call.todo).kind = "memory"
                               THEN Append(@, call.stamp) ELSE @,
                   !.stamp = Len(interaction_history) - 1,
                   !.swallowed = IF outcome = "ok" THEN @ ELSE @ \cup {"save"}]
    /\ pc' = "apply"
    /\ UNCHANGED max_memories
    /\ UNCHANGED persVars
    /\ UNCHANGED <<interaction_history, provides>>
    /\ UNCHANGED funVars
    /\ UNCHANGED <<conVars, srvVars>>

\* simulate_response returning (response, metadata)
SimReturn ==
    /\ pc = "apply"
    /\ call.todo = <<>>
    /\ call' = [Did("return") EXCEPT
                   !.status = "returned",
                   !.interaction_id = Len(interaction_history) - 1]
    /\ pc' = "idle"
    /\ UNCHANGED memVars
    /\ UNCHANGED persVars
    /\ UNCHANGED <<interaction_history, provides>>
    /\ UNCHANGED funVars
    /\ UNCHANGED <<conVars, srvVars>>

\* --------------------------------------------------------- the event loop
Tasks == 1..MaxTasks

\* a task that has not been started
FreshTask == [pc |-> "idle", call |-> NoCall]

\* the running simulate_response call is at an await: of the embedding in
\* get_relevant_memories (it has done nothing yet), of the model's answer in
\* generate_response or analyze_interaction, or of process_update or
\* add_memory in update_profile's loops
AtAwait ==
    \/ pc \in {"idle", "generate", "analyze"}
    \/ pc = "apply" /\ call.todo # <<>>

\* the event loop suspends the running call at its await and resumes (or
\* starts) the call of task t
Switch(t) ==
    /\ AtAwait
    /\ t # cur
    /\ tasks' = [tasks EXCEPT ![cur] = [pc |-> pc, call |-> call], ![t] = FreshTask]
    /\ pc' = tasks[t].pc
    /\ call' = tasks[t].call
    /\ cur' = t
    /\ UNCHANGED <<interaction_history, provides>>
    /\ UNCHANGED memVars
    /\ UNCHANGED persVars
    /\ UNCHANGED funVars
    /\ UNCHANGED srvVars

\* the state of a task that called add_memory: record is a ghost, the rank
\* of the record the call appended
AddCall(inp, status, record) ==
    [op |-> "add_memory", inp |-> inp, status |-> status, record |-> record]

\* a task calls add_memory, which suspends awaiting self.llm.embed(content)
AddMemoryCalled(t, inp) ==
    /\ tasks[t] = FreshTask
    /\ tasks' = [tasks EXCEPT ![t] = [pc |-> "embed", call |-> AddCall(inp, "running", 0)]]
    /\ UNCHANGED cur
    /\ UNCHANGED memVars
    /\ UNCHANGED persVars
    /\ UNCHANGED intVars
    /\ UNCHANGED funVars
    /\ UNCHANGED srvVars

\* the embed call of a suspended add_memory raises: logged and re-raised
AddMemoryResumedEmbedFails(t) ==
    /\ tasks[t].pc = "embed"
    /\ tasks' = [tasks EXCEPT ![t] = [pc |-> "done",
                                      call |-> AddCall(tasks[t].call.inp, "raised", 0)]]
    /\ last' = Call("add_memory", "raised", "ProviderError", <<>>, FALSE)
    /\ UNCHANGED <<memories, max_memories, file, now, nextId>>
    /\ UNCHANGED cur
    /\ UNCHANGED persVars
    /\ UNCHANGED intVars
    /\ UNCHANGED funVars
    /\ UNCHANGED srvVars

\* the embedding of a suspended add_memory arrives: the rest of the call
\* (append, trim, save) runs without another await
AddMemoryResumed(t, outcome) ==
    /\ tasks[t].pc = "embed"
    /\ nextId <= MaxAdds
    /\ LET inp      == tasks[t].call.inp
           ts       == now + 1
           appended == Append(memories, NewMemory(inp[1], inp[2], inp[3], ts))
           kept     == Trimmed(appended)
       IN /\ outcome \in SaveOutcomes(kept)
          /\ memories' = kept
          /\ file' = _save_memories(kept, outcome)
          /\ now' = ts
          /\ last' = Call("add_memory", "ok", NoError, <<>>,
                          Len(appended) > max_memories)
          /\ tasks' = [tasks EXCEPT ![t] = [pc |-> "done",
                                            call |-> AddCall(inp, "returned", nextId)]]
    /\ nextId' = nextId + 1
    /\ UNCHANGED max_memories
    /\ UNCHANGED cur
    /\ UNCHANGED persVars
    /\ UNCHANGED intVars
    /\ UNCHANGED funVars
    /\ UNCHANGED srvVars

\* ------------------------------------------------------------ python str
\* A str is modelled as the sequence of its characters.
Whitespace == {" ", "\t"}

AsciiUpper ==
    <<"A", "B", "C", "D", "E", "F", "G", "H", "I", "J", "K", "L", "M", "N", "O", "P", "Q", "R", "S", "T", "U", "V", "W", "X", "Y", "Z">>
AsciiLower ==
    <<"a", "b", "c", "d", "e", "f", "g", "h", "i", "j", "k", "l", "m", "n", "o", "p", "q", "r", "s", "t", "u", "v", "w", "x", "y", "z">>

LowerChar(c) ==
    IF \E i \in 1..26 : AsciiUpper[i] = c
    THEN AsciiLower[CHOOSE i \in 1..26 : AsciiUpper[i] = c]
    ELSE c

\* s.lower()
StrLower(s) == [i \in 1..Len(s) |-> LowerChar(s[i])]

RECURSIVE LStrip(_)
LStrip(s) == IF s # <<>> /\ Head(s) \in Whitespace THEN LStrip(Tail(s)) ELSE s

RECURSIVE RStrip(_)
RStrip(s) ==
    IF s # <<>> /\ s[Len(s)] \in Whitespace
    THEN RStrip(SubSeq(s, 1, Len(s) - 1)) ELSE s

\* s.strip()
Strip(s) == RStrip(LStrip(s))

\* s.startswith(prefix) and s.endswith(suffix)
StartsWith(s, prefix) == Len(s) >= Len(prefix) /\ SubSeq(s, 1, Len(prefix)) = prefix
EndsWith(s, suffix) ==
    Len(s) >= Len(suffix) /\ SubSeq(s, Len(s) - Len(suffix) + 1, Len(s)) = suffix

RECURSIVE SplitFrom(_, _, _)
SplitFrom(s, sep, piece) ==
    IF s = <<>> THEN <<piece>>
    ELSE IF Head(s) = sep
         THEN <<piece>> \o SplitFrom(Tail(s), sep, <<>>)
         ELSE SplitFrom(Tail(s), sep, Append(piece, Head(s)))

\* s.split(sep) for a one-character sep: "".split("\n") is [""]
Split(s, sep) == SplitFrom(s, sep, <<>>)

RECURSIVE Join(_, _)
\* sep.join(pieces)
Join(sep, pieces) ==
    IF pieces = <<>> THEN <<>>
    ELSE IF Len(pieces) = 1 THEN pieces[1]
    ELSE pieces[1] \o <<sep>> \o Join(sep, Tail(pieces))

\* --------------------------------------------------------- section parser
\* a dict from section names to lists of items, and d[key] = value
EmptyDict == [n \in {} |-> <<>>]
Store(d, key, value) ==
    [n \in DOMAIN d \cup {key} |-> IF n = key THEN value ELSE d[n]]

\* current_section: None, or a name
NoSection == [none |-> TRUE, name |-> <<>>]
Section(name) == [none |-> FALSE, name |-> name]

\* `if current_section:` is false for None and for the empty string
Truthy(current_section) == ~current_section.none /\ current_section.name # <<>>

ParseStart ==
    [sections |-> EmptyDict, current_section |-> NoSection, current_items |-> <<>>]

\* the loop body keeping the items collected so far when a section starts
ParseLine_KeepsItems(st, raw) ==
    LET line == Strip(raw)
    IN IF line = <<>> THEN st
       ELSE IF EndsWith(line, <<":">>)
       THEN [st EXCEPT
               !.sections = IF Truthy(st.current_section)
                            THEN Store(@, st.current_section.name, st.current_items)
                            ELSE @,
               !.current_section = Section(StrLower(SubSeq(line, 1, Len(line) - 1)))]
       ELSE IF StartsWith(line, <<"-", " ">>)
       THEN [st EXCEPT !.current_items = Append(@, SubSeq(line, 3, Len(line)))]
       ELSE st

\* the body of the loop over the lines
ParseLine(st, raw) ==
    LET line == Strip(raw)
    IN IF line = <<>> THEN st
       ELSE IF EndsWith(line, <<":">>)
       THEN [sections |-> IF Truthy(st.current_section)
                          THEN Store(st.sections, st.current_section.name,
                                     st.current_items)
                          ELSE st.sections,
             current_section |-> Section(StrLower(SubSeq(line, 1, Len(line) - 1))),
             current_items |-> <<>>]
       ELSE IF StartsWith(line, <<"-", " ">>)
       THEN [st EXCEPT !.current_items = Append(@, SubSeq(line, 3, Len(line)))]
       ELSE st

RECURSIVE ParseLines(_, _)
ParseLines(st, lines) ==
    IF lines = <<>> THEN st
    ELSE ParseLines(ParseLine(st, Head(lines)), Tail(lines))

\* the parser at the end of analyze_interaction
ParseSections(text) ==
    LET st == ParseLines(ParseStart, Split(text, "\n"))
    IN IF Truthy(st.current_section)
       THEN Store(st.sections, st.current_section.name, st.current_items)
       ELSE st.sections

\* DigitalTwinInteraction._parse_reflection_sections: the same loop
_parse_reflection_sections(reflection) == ParseSections(reflection)

\* the lines the texts are made of
PoolLines ==
    { <<"F", "O", "O", ":">>, <<" ", " ", "f", "o", "o", ":", " ">>, <<"-", " ", "a">>, <<" ", "-", " ", "b", " ">>, <<" ">>, <<":">>, <<"x">>, <<"-", " ", "c", ":">> }

\* "FOO:\n- a\n- b\n\nBAR:\n- c"
ExampleText ==
    <<"F", "O", "O", ":", "\n", "-", " ", "a", "\n", "-", " ", "b", "\n", "\n", "B", "A", "R", ":", "\n", "-", " ", "c">>

\* every text of at most MaxLines lines, and the example
Texts ==
    {Join("\n", lines) : lines \in UNION {[1..n -> PoolLines] : n \in 0..MaxLines}}
    \cup {ExampleText}

NotCalled == [op |-> "none", value |-> <<>>]

\* analyze_interaction parsing the model's answer
AnalyzeInteractionParse ==
    /\ ret = NotCalled
    /\ input \in Texts
    /\ ret' = [op |-> "analyze_interaction", value |-> ParseSections(input)]
    /\ UNCHANGED input
    /\ UNCHANGED <<memVars, persVars, intVars>>
    /\ UNCHANGED <<conVars, srvVars>>

\* reflect_chain parsing the reflection
ParseReflectionSections ==
    /\ ret = NotCalled
    /\ input \in Texts
    /\ ret' = [op |-> "_parse_reflection_sections",
               value |-> _parse_reflection_sections(input)]
    /\ UNCHANGED input
    /\ UNCHANGED <<memVars, persVars, intVars>>
    /\ UNCHANGED <<conVars, srvVars>>

\* ------------------------------------------------- _adjust_response_style
RECURSIVE Replace(_, _, _)
\* s.replace(old, new) for a non-empty old: every occurrence, left to right,
\* without overlaps
Replace(s, old, new) ==
    IF Len(s) < Len(old) THEN s
    ELSE IF StartsWith(s, old)
         THEN new \o Replace(SubSeq(s, Len(old) + 1, Len(s)), old, new)
         ELSE <<Head(s)>> \o Replace(Tail(s), old, new)

\* sub in s
Contains(s, sub) ==
    \E i \in 1..(Len(s) - Len(sub) + 1) : SubSeq(s, i, i + Len(sub) - 1) = sub

StyleTraits == {"conscientiousness", "extraversion", "agreeableness"}

\* personality_traits.get(name, 0.5)
TraitGet(personality_traits, name) ==
    IF personality_traits[name] = NoValue THEN Unit \div 2 ELSE personality_traits[name]

\* the comparison of a trait with its level, letting the level itself pass
Exceeds_OrEqual(value, level) == value >= level

\* the comparison of a trait with its configured level
Exceeds(value, level) == value > level

\* the formality substitutions
Formalize(response) ==
    Replace(Replace(Replace(Replace(response,
        <<"g", "o", "n", "n", "a">>, <<"g", "o", "i", "n", "g", " ", "t", "o">>),
        <<"w", "a", "n", "n", "a">>, <<"w", "a", "n", "t", " ", "t", "o">>),
        <<"y", "e", "a", "h">>, <<"y", "e", "s">>),
        <<"n", "o", "p", "e">>, <<"n", "o">>)

\* the enthusiasm substitutions
Enthuse(response) ==
    LET r == Replace(Replace(response, <<".">>, <<"!">>), <<"!">>, <<"!", "!">>)
    IN IF ~EndsWith(r, <<"!">>) THEN r \o <<"!">> ELSE r

\* the politeness additions
Politen(response) ==
    LET r == <<"I", " ", "t", "h", "i", "n", "k", " ">> \o StrLower(response)
    IN IF ~(\/ Contains(StrLower(r), <<"p", "l", "e", "a", "s", "e">>)
            \/ Contains(StrLower(r), <<"t", "h", "a", "n", "k">>)
            \/ Contains(StrLower(r), <<"a", "p", "p", "r", "e", "c", "i", "a", "t", "e">>))
       THEN r \o <<" ", "T", "h", "a", "n", "k", " ", "y", "o", "u", " ", "f", "o", "r", " ", "a", "s", "k", "i", "n", "g", "!">>
       ELSE r

\* ResponseGenerator._adjust_response_style, style_config being
\* self.config["personality"]["response_style"]
_adjust_response_style(response, personality_traits, style_config) ==
    LET r1 == IF Exceeds(TraitGet(personality_traits, "conscientiousness"),
                         style_config.formality_level)
              THEN Formalize(response) ELSE response
        r2 == IF Exceeds(TraitGet(personality_traits, "extraversion"),
                         style_config.enthusiasm_level)
              THEN Enthuse(r1) ELSE r1
        r3 == IF Exceeds(TraitGet(personality_traits, "agreeableness"),
                         style_config.politeness_level)
              THEN Politen(r2) ELSE r2
    IN r3

\* the pieces the responses are made of
StyleTokens ==
    { <<"g", "o", "n", "n", "a">>, <<"w", "a", "n", "n", "a">>, <<"y", "e", "a", "h">>, <<"n", "o", "p", "e">>,
      <<"Y", "e", "a", "h">>, <<" ", "d", "o", " ", "i", "t">>, <<".">>, <<"!">>,
      <<" ", "p", "l", "e", "a", "s", "e">> }

RECURSIVE Concat(_)
Concat(pieces) == IF pieces = <<>> THEN <<>> ELSE Head(pieces) \o Concat(Tail(pieces))

\* "gonna do it."
ExampleResponse ==
    <<"g", "o", "n", "n", "a", " ", "d", "o", " ", "i", "t", ".">>

Responses ==
    {Concat(pieces) : pieces \in UNION {[1..n -> StyleTokens] : n \in 0..MaxTokens}}
    \cup {ExampleResponse}

\* trait values 0.3, 0.7 and 0.9, or no entry; levels 0.3 and 0.7
StyleValues == {NoValue, (3 * Unit) \div 10, (7 * Unit) \div 10, (9 * Unit) \div 10}
StyleLevels == {(3 * Unit) \div 10, (7 * Unit) \div 10}
StyleConfigs ==
    {[formality_level |-> l, enthusiasm_level |-> l, politeness_level |-> l] :
        l \in StyleLevels}

StyleArgs ==
    [response : Responses, personality_traits : [StyleTraits -> StyleValues],
     style_config : StyleConfigs]

\* generate_response adjusting the model's text
AdjustResponseStyle ==
    /\ ret = NotCalled
    /\ input # <<>>
    /\ ret' = [op |-> "_adjust_response_style",
               value |-> _adjust_response_style(input.response,
                                                input.personality_traits,
                                                input.style_config)]
    /\ UNCHANGED input
    /\ UNCHANGED <<memVars, persVars, intVars>>
    /\ UNCHANGED <<conVars, srvVars>>

\* -------------------------------------------------------- route_interaction
\* the interaction_type arguments: the three the code knows and another one
InteractionTypes == {"simulate", "reflect", "update", "summarize"}

\* the text the model answers a reflection prompt with, and the content of
\* the memory that holds it
ReflectionText == ExampleText
ReflectionContent == "reflection"

\* route_interaction(user_input, "simulate", context): simulate_response is
\* awaited; its first step is the recall, whose embed call returns or fails
\* inside get_relevant_memories
RouteSimulate(user_input, context, embed_outcome) ==
    /\ CanStart
    /\ last' = IF embed_outcome = "ok"
               THEN RecallResult(user_input)
               ELSE Call("get_relevant_memories", "soft_fail", embed_outcome, <<>>, FALSE)
    /\ call' = [NoCall EXCEPT !.op = "simulate_response", !.route = "simulate",
                              !.user_input = user_input, !.context = context,
                              !.relevant_memories = last'.result,
                              !.status = "running", !.steps = <<"recall">>,
                              !.swallowed = IF last'.status = "soft_fail"
                                            THEN {"recall"} ELSE {}]
    /\ pc' = "get_traits"
    /\ UNCHANGED <<memories, max_memories, file, now, nextId>>
    /\ UNCHANGED persVars
    /\ UNCHANGED <<interaction_history, provides>>
    /\ UNCHANGED funVars
    /\ UNCHANGED <<conVars, srvVars>>

\* how a routed call that is not a simulate_response ends
Routed(type, op, user_input, context, status, error, failed_in, result) ==
    [NoCall EXCEPT !.op = op, !.route = type, !.user_input = user_input,
                   !.context = context, !.status = status, !.error = error,
                   !.failed_in = failed_in, !.result = result]

\* route_interaction(user_input, "reflect", context): context.get(...) is
\* evaluated first; reflect_chain then reads the memories (sorting the stored
\* list), asks the personality for its history, asks the model, parses its
\* answer and stores it as a semantic memory
RouteReflect(user_input, context, llm_outcome, embed_outcome, outcome) ==
    /\ pc = "idle"
    /\ nextId <= MaxAdds
    /\ pc' = "idle"
    /\ LET sorted   == SortDesc(memories, TimestampKeys(memories))
           ts       == now + 1
           appended == Append(sorted, NewMemory(ReflectionContent, "semantic",
                                                MetaReflection, ts))
           kept     == Trimmed(appended)
           read     == Call("get_memories_for_reflection", "ok", NoError,
                            Head_n(sorted, ConfigMaxMemories), FALSE)
       IN CASE context = CtxNone ->
                 /\ call' = Routed("reflect", "route_interaction", user_input, context,
                                   "raised", "AttributeError", "route_interaction", <<>>)
                 /\ UNCHANGED memVars
            [] context # CtxNone /\ ~provides ->
                 /\ call' = Routed("reflect", "reflect_chain", user_input, context,
                                   "raised", "AttributeError", "get_evolution_history", <<>>)
                 /\ memories' = sorted
                 /\ last' = read
                 /\ UNCHANGED <<max_memories, file, now, nextId>>
            [] context # CtxNone /\ provides /\ llm_outcome # "ok" ->
                 /\ call' = Routed("reflect", "reflect_chain", user_input, context,
                                   "raised", llm_outcome, "generate", <<>>)
                 /\ memories' = sorted
                 /\ last' = read
                 /\ UNCHANGED <<max_memories, file, now, nextId>>
            [] context # CtxNone /\ provides /\ llm_outcome = "ok"
                    /\ embed_outcome # "ok" ->
                 /\ call' = Routed("reflect", "reflect_chain", user_input, context,
                                   "raised", embed_outcome, "add_memory", <<>>)
                 /\ memories' = sorted
                 /\ last' = Call("add_memory", "raised", embed_outcome, <<>>, FALSE)
                 /\ UNCHANGED <<max_memories, file, now, nextId>>
            [] OTHER ->
                 /\ outcome \in SaveOutcomes(kept)
                 /\ call' = Routed("reflect", "reflect_chain", user_input, context,
                                   "returned", NoError, "",
                                   [type |-> "reflect",
                                    insights |-> _parse_reflection_sections(ReflectionText)])
                 /\ memories' = kept
                 /\ file' = _save_memories(kept, outcome)
                 /\ now' = ts
                 /\ nextId' = nextId + 1
                 /\ last' = Call("add_memory", "ok", NoError, <<>>,
                                 Len(appended) > max_memories)
                 /\ UNCHANGED max_memories
    /\ UNCHANGED persVars
    /\ UNCHANGED <<interaction_history, provides>>
    /\ UNCHANGED funVars
    /\ UNCHANGED <<conVars, srvVars>>

\* route_interaction(user_input, "update", context): update_profile is given
\* {"user_input": ..., "context": ...}; it reads the traits and the recent
\* memories (sorting the stored list) and then evaluates
\* interaction['response'], a key the dict does not have, before the model
\* is asked anything
RouteUpdate(user_input, context) ==
    /\ pc = "idle"
    /\ pc' = "idle"
    /\ IF ~provides
       THEN /\ call' = Routed("update", "update_profile", user_input, context,
                              "raised", "AttributeError", "get_traits", <<>>)
            /\ UNCHANGED memVars
       ELSE LET sorted == SortDesc(memories, TimestampKeys(memories))
            IN /\ call' = Routed("update", "update_profile", user_input, context,
                                 "raised", "KeyError", "analyze", <<>>)
               /\ memories' = sorted
               /\ last' = Call("get_recent_memories", "ok", NoError,
                               Head_n(sorted, ConfigMaxMemories), FALSE)
               /\ UNCHANGED <<max_memories, file, now, nextId>>
    /\ UNCHANGED persVars
    /\ UNCHANGED <<interaction_history, provides>>
    /\ UNCHANGED funVars
    /\ UNCHANGED <<conVars, srvVars>>

\* route_interaction with any other interaction_type: ValueError, logged and
\* re-raised
RouteUnknown(user_input, interaction_type, context) ==
    /\ pc = "idle"
    /\ interaction_type \notin {"simulate", "reflect", "update"}
    /\ call' = Routed(interaction_type, "route_interaction", user_input, context,
                      "raised", "ValueError", "route_interaction", <<>>)
    /\ pc' = "idle"
    /\ UNCHANGED memVars
    /\ UNCHANGED persVars
    /\ UNCHANGED <<interaction_history, provides>>
    /\ UNCHANGED funVars
    /\ UNCHANGED <<conVars, srvVars>>

\* --------------------------------------------------------- DigitalTwinServer
Tenth == Unit \div 10

\* what SentimentAnalyzer.analyze returns for a text: the label and score of
\* the two pipelines
Sentiment(slabel, sscore, elabel, escore) ==
    [sentiment |-> [label |-> slabel, score |-> sscore],
     emotion   |-> [label |-> elabel, score |-> escore]]

SentimentResults ==
    { Sentiment("POSITIVE", 9 * Tenth, "joy", 9 * Tenth),
      Sentiment("NEGATIVE", 9 * Tenth, "anger", 9 * Tenth),
      Sentiment("NEGATIVE", 3 * Tenth, "fear", 3 * Tenth),
      Sentiment("POSITIVE", 3 * Tenth, "neutral", 7 * Tenth),
      Sentiment("POSITIVE", 9 * Tenth, "love", 3 * Tenth) }

EmotionKeys == {"neuroticism", "agreeableness", "extraversion"}

\* SentimentAnalyzer.get_emotional_context on the analysis of the text
get_emotional_context(analysis) ==
    [k \in EmotionKeys |->
        CASE k = "neuroticism" ->
                IF analysis.sentiment.label = "NEGATIVE"
                THEN PyMin(Unit, Unit \div 2 + analysis.sentiment.score)
                ELSE Unit \div 2
          [] k = "agreeableness" ->
                IF analysis.emotion.label \in {"joy", "love"}
                THEN PyMin(Unit, Unit \div 2 + analysis.emotion.score)
                ELSE IF analysis.emotion.label \in {"anger", "fear"}
                     THEN PyMax(0, Unit \div 2 - analysis.emotion.score)
                     ELSE Unit \div 2
          [] OTHER ->
                IF analysis.emotion.score > 7 * Tenth
                THEN PyMin(Unit, Unit \div 2 + analysis.emotion.score)
                ELSE Unit \div 2]

\* the keys a context can hold a number for; NoTarget: the key is not there
ContextKeys == TraitNames \cup EmotionKeys

\* the context argument of process_interaction
ServerContexts ==
    { [k \in ContextKeys |-> NoTarget],
      [k \in ContextKeys |-> IF k = "extraversion" THEN 0 ELSE NoTarget],
      [k \in ContextKeys |-> IF k = "openness" THEN Unit ELSE Unit \div 2] }

\* the caller's value kept where both dicts have the key
Merge_CallerWins(context, emotional_context) ==
    [k \in ContextKeys |->
        IF context[k] # NoTarget THEN context[k]
        ELSE IF k \in EmotionKeys THEN emotional_context[k] ELSE NoTarget]

\* {**context, **emotional_context}
Merge(context, emotional_context) ==
    [k \in ContextKeys |->
        IF k \in EmotionKeys THEN emotional_context[k] ELSE context[k]]

\* {trait: full_context.get(trait, 0.5) for trait in self.personality.traits.keys()}
PersonalityContext(full_context) ==
    [n \in TraitNames |->
        IF ~traits[n].present THEN NoTarget
        ELSE IF full_context[n] = NoTarget THEN Unit \div 2 ELSE full_context[n]]

\* the prompts, as strings of characters
ServerPrompts == { <<"a">>, <<"A", "b">> }

\* the row MemoryManager.add_memory inserts
Row(content, context, importance, category) ==
    [id |-> Len(db) + 1, content |-> content, context |-> context,
     importance |-> importance, category |-> category]

\* Memory.content.ilike('%query%'), the query holding no wildcard
ILike(content, query) == Contains(StrLower(content), StrLower(query))

\* MemoryManager.search_memories: the rows that match, highest importance
\* first, at most limit of them; the order among equal importances is the
\* database's choice, so every admissible selection is a result
SearchResults(rows, query, limit) ==
    LET matching == {i \in 1..Len(rows) : ILike(rows[i].content, query)}
    IN {S \in SUBSET matching :
          /\ Cardinality(S) = Min(limit, Cardinality(matching))
          /\ \A i \in S, j \in matching \ S : rows[i].importance >= rows[j].importance}

\* generate_response is an async def called without await: what comes back
\* is the coroutine object, and the body never runs
CoroutineObject == "coroutine generate_response"

\* a process_interaction call: its arguments, its locals and how it ended;
\* n (the number of calls so far) and steps (what ran, in order) are ghosts,
\* relevant_memories holds the ids of the rows found
NoProcess ==
    [op |-> "none", status |-> "none", n |-> 0, prompt |-> <<>>,
     context |-> [k \in ContextKeys |-> NoTarget],
     emotional_context |-> [k \in EmotionKeys |-> Unit \div 2],
     steps |-> <<>>, personality_traits |-> NoTraits, relevant_memories |-> {},
     response |-> ""]

\* process_interaction whose add_memory raises (the commit fails): nothing
\* catches it, nothing was stored, the personality is untouched
ProcessInteractionWriteFails(prompt, context, analysis) ==
    /\ Len(db) < MaxInteractions
    /\ srv.n < MaxInteractions
    /\ srv' = [NoProcess EXCEPT !.op = "process_interaction", !.status = "raised",
                                !.n = srv.n + 1, !.prompt = prompt, !.context = context,
                                !.emotional_context = get_emotional_context(analysis),
                                !.steps = <<"sentiment", "write">>]
    /\ UNCHANGED db
    /\ UNCHANGED memVars
    /\ UNCHANGED persVars
    /\ UNCHANGED intVars
    /\ UNCHANGED funVars
    /\ UNCHANGED conVars

\* DigitalTwinServer.process_interaction
ProcessInteraction(prompt, context, analysis) ==
    /\ Len(db) < MaxInteractions
    /\ srv.n < MaxInteractions
    /\ calls < MaxCalls - 1
    /\ LET emotional_context   == get_emotional_context(analysis)
           full_context        == Merge(context, emotional_context)
           stored              == Append(db, Row(prompt, full_context, 70, "interaction"))
           personality_context == PersonalityContext(full_context)
           touched             == {n \in TraitNames : traits[n].present}
       IN /\ db' = stored
          /\ calls' = calls + 1
          /\ traits' = [n \in TraitNames |->
                          IF n \in touched
                          THEN TraitUpdate(traits[n],
                                           Blend(traits[n].value, personality_context[n]),
                                           calls')
                          ELSE traits[n]]
          /\ last_updated' = IF touched = {} THEN last_updated ELSE calls'
          /\ plast' = PCall("evolve", "ok", "", 0)
          /\ \E found \in SearchResults(stored, prompt, 3) :
                srv' = [op |-> "process_interaction", status |-> "returned",
                        n |-> srv.n + 1, prompt |-> prompt, context |-> context,
                        emotional_context |-> emotional_context,
                        steps |-> <<"sentiment", "write", "evolve", "recall", "generate">>,
                        personality_traits |->
                            [n \in TraitNames |->
                                IF traits'[n].present THEN traits'[n].value ELSE NoValue],
                        relevant_memories |-> {stored[i].id : i \in found},
                        response |-> CoroutineObject]
    /\ UNCHANGED memVars
    /\ UNCHANGED intVars
    /\ UNCHANGED funVars
    /\ UNCHANGED conVars

\* ---------------------------------------------------------- specification
\* a MemorySystem constructed on a fresh directory
InitPersonality ==
    /\ traits = [n \in TraitNames |-> NoTrait]
    /\ last_updated = 0
    /\ calls = 0
    /\ plast = PCall("__init__", "ok", "", 0)

InitMemory ==
    /\ max_memories \in Caps
    /\ memories = <<>>
    /\ file = FileAbsent
    /\ now = 0
    /\ nextId = 1
    /\ last = Call("__init__", "ok", NoError, <<>>, FALSE)

\* no orchestrator call has been made
InitInteraction ==
    /\ interaction_history = <<>>
    /\ provides = FALSE
    /\ pc = "idle"
    /\ call = NoCall

\* the event loop with one call running and the other tasks not started
InitTasks ==
    /\ cur = 1
    /\ tasks = [t \in Tasks |-> FreshTask]

\* a DigitalTwinServer on an empty table, before any process_interaction
InitServer ==
    /\ db = <<>>
    /\ srv = NoProcess

\* no text function has been called; one task, nothing suspended; an empty
\* table and no process_interaction call
InitFun ==
    /\ input = <<>>
    /\ ret = NotCalled
    /\ InitTasks
    /\ InitServer

Init == InitMemory /\ InitPersonality /\ InitInteraction /\ InitFun

\* a text about to be parsed
InitParser ==
    /\ max_memories = MaxCap
    /\ memories = <<>>
    /\ file = FileAbsent
    /\ now = 0
    /\ nextId = 1
    /\ last = Call("__init__", "ok", NoError, <<>>, FALSE)
    /\ InitPersonality
    /\ InitInteraction
    /\ input \in Texts
    /\ ret = NotCalled
    /\ InitTasks
    /\ InitServer

\* a DigitalTwinInteraction over a fresh MemorySystem and a personality
\* object that holds one trait
InitTwin ==
    /\ InitMemory
    /\ traits = [n \in TraitNames |->
                    IF n = "openness"
                    THEN [present |-> TRUE, value |-> Unit \div 2, history |-> <<>>]
                    ELSE NoTrait]
    /\ last_updated = 0
    /\ calls = 0
    /\ plast = PCall("__init__", "ok", "", 0)
    /\ interaction_history = <<>>
    /\ provides \in BOOLEAN
    /\ pc = "idle"
    /\ call = NoCall
    /\ InitFun

NextMemory ==
    \/ \E cap \in Caps : Construct(cap)
    \/ AddMemoryEmbedFails
    \/ \E inp \in AddInputs, outcome \in {"ok", "write_fail"} :
          AddMemory(inp, outcome)
    \/ GetRelevantMemoriesEmbedFails
    \/ \E query \in Contents, limit \in Limits, t \in Filters :
          GetRelevantMemories(query, limit, t)
    \/ \E limit \in Limits, t \in Filters : GetRecentMemories(limit, t)
    \/ \E limit \in Limits : GetMemoriesForReflection(limit)

NextPersonality ==
    \/ \E name \in TraitNames, value \in Values : AddTrait(name, value)
    \/ \E name \in TraitNames, value \in Values : UpdateTrait(name, value)
    \/ \E ctx \in Contexts : Evolve(ctx)

NextInteraction ==
    \/ \E user_input \in Contents, context \in ContextArgs :
          SimRecallEmbedFails(user_input, context)
    \/ \E user_input \in Contents, context \in ContextArgs :
          SimRecall(user_input, context)
    \/ SimGetTraits
    \/ SimGetTraitsMissing
    \/ \E llm_outcome \in LlmOutcomes : SimGenerate(llm_outcome)
    \/ SimRecord
    \/ SimProfileState
    \/ \E llm_outcome \in LlmOutcomes, analysis \in Analyses :
          SimAnalyze(llm_outcome, analysis)
    \/ SimProcessUpdate
    \/ SimAddMemoryEmbedFails
    \/ \E outcome \in {"ok", "write_fail"} : SimAddMemory(outcome)
    \/ SimReturn
    \/ \E prompt \in Contents, context \in ContextArgs, llm_outcome \in LlmOutcomes :
          CallGenerateResponse(prompt, context, llm_outcome)

\* the MemorySystem on its own, and the Personality on its own
SpecMemory == Init /\ [][NextMemory]_vars
SpecPersonality == Init /\ [][NextPersonality]_vars

\* the orchestrator over its MemorySystem and personality
SpecInteraction == InitTwin /\ [][NextInteraction]_vars

NextParser ==
    \/ AnalyzeInteractionParse
    \/ ParseReflectionSections

\* the section parser applied to a text
SpecParser == InitParser /\ [][NextParser]_vars

\* a response about to be adjusted
InitStyle ==
    /\ max_memories = MaxCap
    /\ memories = <<>>
    /\ file = FileAbsent
    /\ now = 0
    /\ nextId = 1
    /\ last = Call("__init__", "ok", NoError, <<>>, FALSE)
    /\ InitPersonality
    /\ InitInteraction
    /\ input \in StyleArgs
    /\ ret = NotCalled
    /\ InitTasks
    /\ InitServer

NextStyle == AdjustResponseStyle

\* the style adjustment applied to a response
SpecStyle == InitStyle /\ [][NextStyle]_vars

\* an orchestrator whose personality object has get_traits, over a fresh
\* MemorySystem
InitConcurrent ==
    /\ InitTwin
    /\ max_memories = MaxCap
    /\ provides

\* the analyses of the interleaved calls: no section, or one memory to form
FormingAnalyses == {NoSections, [NoSections EXCEPT !.memory_formation = <<"b">>]}

\* a task that has made no call yet calls simulate_response
SimulateResponseCalled ==
    /\ call.op = "none"
    /\ SimRecall("a", CtxDict)

\* one call per task, its provider calls all succeeding, switched at its
\* awaits
NextConcurrent ==
    \/ SimulateResponseCalled
    \/ SimGetTraits
    \/ SimGenerate("ok")
    \/ SimRecord
    \/ SimProfileState
    \/ \E analysis \in FormingAnalyses : SimAnalyze("ok", analysis)
    \/ SimAddMemory("ok")
    \/ SimReturn
    \/ \E t \in Tasks : Switch(t)

\* simulate_response calls interleaved at their awaits on one orchestrator
SpecConcurrent == InitConcurrent /\ [][NextConcurrent]_vars

NextConcurrentAdds ==
    \/ \E t \in Tasks, inp \in AddInputs : AddMemoryCalled(t, inp)
    \/ \E t \in Tasks : AddMemoryResumedEmbedFails(t)
    \/ \E t \in Tasks, outcome \in {"ok", "write_fail"} : AddMemoryResumed(t, outcome)

\* add_memory calls interleaved at their awaits on one MemorySystem
SpecConcurrentAdds == Init /\ [][NextConcurrentAdds]_vars

\* the initial_traits a DigitalTwinServer is constructed with: the defaults
\* (0.5 each), one trait only, or two values away from 0.5
InitialTraits ==
    { [n \in TraitNames |-> Unit \div 2],
      [n \in TraitNames |-> IF n = "openness" THEN Unit ELSE NoValue],
      [n \in TraitNames |-> IF n = "openness" THEN 0 ELSE Unit] }

\* DigitalTwinServer.__init__: one add_trait per initial trait
InitServerTwin ==
    /\ max_memories = MaxCap
    /\ memories = <<>>
    /\ file = FileAbsent
    /\ now = 0
    /\ nextId = 1
    /\ last = Call("__init__", "ok", NoError, <<>>, FALSE)
    /\ \E initial_traits \in InitialTraits :
          traits = [n \in TraitNames |->
                      IF initial_traits[n] = NoValue THEN NoTrait
                      ELSE [present |-> TRUE, value |-> initial_traits[n],
                            history |-> <<>>]]
    /\ last_updated = 0
    /\ calls = 0
    /\ plast = PCall("__init__", "ok", "", 0)
    /\ InitInteraction
    /\ InitFun

NextServer ==
    \/ \E prompt \in ServerPrompts, context \in ServerContexts,
          analysis \in SentimentResults :
          ProcessInteractionWriteFails(prompt, context, analysis)
    \/ \E prompt \in ServerPrompts, context \in ServerContexts,
          analysis \in SentimentResults :
          ProcessInteraction(prompt, context, analysis)

\* the server's process_interaction over its table and its personality
SpecServer == InitServerTwin /\ [][NextServer]_vars

\* the twin with room for MaxCap memories
InitRoute ==
    /\ InitTwin
    /\ max_memories = MaxCap

\* the analyses of the routed calls: no section, or one of each kind
RouteAnalyses ==
    {NoSections,
     [personality_updates |-> <<Upd>>, knowledge_updates |-> <<"a">>,
      memory_formation |-> <<"b">>]}

\* how the model's answer, the embedding and the write of a reflect_chain
\* call turn out: everything succeeds, or one of the three fails
ReflectRuns ==
    {<<"ok", "ok", "ok">>, <<"ProviderError", "ok", "ok">>,
     <<"ok", "ProviderError", "ok">>, <<"ok", "ok", "write_fail">>}

\* route_interaction dispatching; a routed simulate_response goes on through
\* its steps
NextRoute ==
    \/ \E user_input \in Contents, context \in ContextArgs, embed_outcome \in LlmOutcomes :
          RouteSimulate(user_input, context, embed_outcome)
    \/ \E context \in ContextArgs, run \in ReflectRuns :
          RouteReflect("a", context, run[1], run[2], run[3])
    \/ \E context \in ContextArgs : RouteUpdate("a", context)
    \/ \E interaction_type \in InteractionTypes, context \in ContextArgs :
          RouteUnknown("a", interaction_type, context)
    \/ SimGetTraits
    \/ SimGetTraitsMissing
    \/ \E llm_outcome \in LlmOutcomes : SimGenerate(llm_outcome)
    \/ SimRecord
    \/ SimProfileState
    \/ \E llm_outcome \in LlmOutcomes, analysis \in RouteAnalyses :
          SimAnalyze(llm_outcome, analysis)
    \/ SimProcessUpdate
    \/ SimAddMemoryEmbedFails
    \/ \E outcome \in {"ok", "write_fail"} : SimAddMemory(outcome)
    \/ SimReturn

\* the orchestrator called through route_interaction
SpecRoute == InitRoute /\ [][NextRoute]_vars

TypeOKMemory ==
    /\ max_memories \in Caps
    /\ Len(memories) <= MaxAdds
    /\ file.status \in {"absent", "ok", "corrupt"}
    /\ nextId \in 1..(MaxAdds + 1)

TypeOKPersonality ==
    /\ calls \in 0..MaxCalls
    /\ \A n \in TraitNames : Len(traits[n].history) <= MaxCalls

\* ------------------------------------------------------------------ claims
IdsOf(lst) == {lst[i].id : i \in 1..Len(lst)}

\* the n largest members of a set of ranks
Newest(S, n) == {x \in S : Cardinality({y \in S : y > x}) < n}

AddReturned == last.op = "add_memory" /\ last.status = "ok"

\* C1: when an add_memory call pushes the collection past max_memories
\* (max_memories >= 1), the records kept are the max_memories most recently
\* added ones among the collection and the new record: the oldest are dropped.
C1_TrimDropsOldest ==
    [][(last'.op = "add_memory" /\ last'.status = "ok" /\ last'.trimmed
            /\ nextId' = nextId + 1 /\ max_memories >= 1)
        => IdsOf(memories') = Newest(IdsOf(memories) \cup {nextId}, max_memories)]_vars

\* C2: the number of retained records never exceeds max_memories, right
\* after construction and after every add_memory call.
C2_SizeWithinCap == Len(memories) <= max_memories

\* the filtered list get_relevant_memories scores
Candidates(t) == IF t # NoFilter THEN FilterType(memories, t) ELSE memories

ScoresOf(lst, query) == [i \in 1..Len(lst) |-> Dot(Embed(query), lst[i].embedding)]

\* two candidates with different content and the same score
TieOnDifferentContent(lst, query) ==
    \E i, j \in 1..Len(lst) :
        /\ i < j
        /\ lst[i].content # lst[j].content
        /\ ScoresOf(lst, query)[i] = ScoresOf(lst, query)[j]

\* C3: when records with different content tie on the score, the call still
\* returns the top `limit` records, the tied ones in their stored order.
C3_TiesKeepStoreOrder ==
    [][\A query \in Contents, limit \in Limits, t \in Filters :
          (GetRelevantMemories(query, limit, t)
              /\ TieOnDifferentContent(Candidates(t), query))
          => last'.result =
                Head_n(SortDesc(Candidates(t), ScoresOf(Candidates(t), query)), limit)]_vars

\* what C4 says of a result for the candidates lst
TopByScore(result, lst, query, limit) ==
    /\ Len(result) = Min(limit, Len(lst))
    /\ \A k \in 1..Len(result) : \E i \in 1..Len(lst) : lst[i] = result[k]
    /\ \A k \in 1..(Len(result) - 1) :
          ScoresOf(result, query)[k] >= ScoresOf(result, query)[k + 1]
    /\ \A i \in 1..Len(lst) :
          (\A k \in 1..Len(result) : result[k] # lst[i])
          => \A k \in 1..Len(result) :
                ScoresOf(lst, query)[i] <= ScoresOf(result, query)[k]

\* C4: a get_relevant_memories call whose query was embedded returns exactly
\* min(limit, #candidates) candidates, in non-increasing score order, leaving
\* out no record that scores higher than a returned one.
C4_ReturnsTopLimit ==
    [][\A query \in Contents, limit \in Limits, t \in Filters :
          GetRelevantMemories(query, limit, t)
          => TopByScore(last'.result, Candidates(t), query, limit)]_vars

\* C5: an add_memory call whose embed call fails raises to its caller and
\* changes neither the collection nor the file.
C5_EmbedFailureChangesNothing ==
    [][/\ AddMemoryEmbedFails => last'.status = "raised"
       /\ (last'.op = "add_memory" /\ last'.status = "raised")
            => (memories' = memories /\ file' = file)]_vars

C5_Witness ==
    /\ last.op = "add_memory"
    /\ last.status = "raised"
    /\ Len(memories) >= 1
    /\ file.status = "ok"

\* C6: after every add_memory call that returns normally the file holds
\* exactly the serialized current collection.
C6_FileHoldsCollection ==
    AddReturned => (file.status = "ok" /\ file.data = JsonDump(memories))

\* C7 as stated: constructing on a directory whose file was written by
\* _save_memories yields the very collection that was saved.
C7_RoundTrip ==
    (last.op = "__init__" /\ file.status = "ok") => memories = file.saved

\* records made of values json reads back as they were written
JsonNative(lst) ==
    \A i \in 1..Len(lst) :
        lst[i].metadata \in {MetaEmpty, MetaStr, MetaSourceId, MetaList}

\* C7 amended: the round trip is the identity on collections made of
\* values json reads back unchanged (no tuples).
C7_RoundTripJsonNative ==
    (last.op = "__init__" /\ file.status = "ok" /\ JsonNative(file.saved))
    => memories = file.saved

C7_Witness ==
    /\ last.op = "__init__"
    /\ file.status = "ok"
    /\ JsonNative(file.saved)
    /\ Len(file.saved) >= 2
    /\ memories = file.saved

\* C8: get_relevant_memories never raises; when it fails it returns [] and
\* in every case it leaves the collection as it was.
C8_SoftFail ==
    [][/\ GetRelevantMemoriesEmbedFails => last'.status = "soft_fail"
       /\ last'.op = "get_relevant_memories"
            => /\ last'.status # "raised"
               /\ last'.status = "soft_fail" => last'.result = <<>>
               /\ memories' = memories]_vars

C8_Witness ==
    /\ last.op = "get_relevant_memories"
    /\ last.status = "soft_fail"
    /\ last.error = "TypeError"
    /\ last.result = <<>>
    /\ Len(memories) >= 2

InUnitInterval(v) == 0 <= v /\ v <= Unit

\* C9: every trait's value and every value in its history lies in [0,1].
C9_ValuesInUnitInterval ==
    \A n \in TraitNames :
        traits[n].present =>
            /\ InUnitInterval(traits[n].value)
            /\ \A k \in 1..Len(traits[n].history) :
                  InUnitInterval(traits[n].history[k].value)

C9_Witness ==
    /\ plast.op = "update_trait"
    /\ plast.arg > Unit
    /\ traits[plast.name].present
    /\ traits[plast.name].value = Unit
    /\ Len(traits[plast.name].history) >= 1

\* clamp(x, 0, 1)
ClampTo01(x) == IF x < 0 THEN 0 ELSE IF x > Unit THEN Unit ELSE x

\* C10: update_trait on an existing trait stores clamp(new_value, 0, 1),
\* appends one history entry holding that value and leaves every other
\* trait as it was.
C10_UpdateTraitEffect ==
    [][(plast'.op = "update_trait" /\ calls' = calls + 1
            /\ traits[plast'.name].present)
        => LET n   == plast'.name
               old == traits[n]
               new == traits'[n]
           IN /\ new.present
              /\ new.value = ClampTo01(plast'.arg)
              /\ Len(new.history) = Len(old.history) + 1
              /\ SubSeq(new.history, 1, Len(old.history)) = old.history
              /\ new.history[Len(new.history)].value = ClampTo01(plast'.arg)
              /\ \A m \in TraitNames \ {n} : traits'[m] = traits[m]]_vars

C10_Witness ==
    /\ plast.op = "update_trait"
    /\ plast.arg < 0
    /\ traits[plast.name].present
    /\ traits[plast.name].value = 0
    /\ Len(traits[plast.name].history) >= 2
    /\ \E m \in TraitNames \ {plast.name} : traits[m].present
\* C11: update_trait with a name that is not in the trait set returns
\* normally and changes no trait (value, history), does not create the trait
\* and leaves last_updated as it was.
C11_UnknownNameNoOp ==
    [][(plast'.op = "update_trait" /\ calls' = calls + 1
            /\ ~traits[plast'.name].present)
        => /\ plast'.status = "ok"
           /\ traits' = traits
           /\ ~traits'[plast'.name].present
           /\ last_updated' = last_updated]_vars

C11_Witness ==
    /\ plast.op = "update_trait"
    /\ ~traits[plast.name].present
    /\ last_updated > 0
    /\ last_updated < calls
    /\ \E m \in TraitNames : traits[m].present /\ Len(traits[m].history) >= 1

\* the traits an evolve call with this context updates
InBoth(ctx) == {n \in TraitNames : traits[n].present /\ ctx[n] # NoTarget}

\* ten times 0.9 * v + 0.1 * t
TenTimesRule(v, t) == 9 * v + t

\* C12: evolve sets every trait that is in the trait set and in the context
\* to clamp(0.9 * value + 0.1 * target, 0, 1), value being the one before the
\* call, and records it in the history; every other trait keeps its value and
\* history, and a context key that names no trait adds none.
C12_EvolveRule ==
    [][\A ctx \in Contexts :
          Evolve(ctx) =>
            \A n \in TraitNames :
                IF n \in InBoth(ctx)
                THEN LET raw10 == TenTimesRule(traits[n].value, ctx[n])
                         w     == traits'[n].value
                     IN /\ traits'[n].present
                        /\ IF raw10 < 0 THEN w = 0
                           ELSE IF raw10 > 10 * Unit THEN w = Unit
                           ELSE 10 * w = raw10
                        /\ Len(traits'[n].history) = Len(traits[n].history) + 1
                        /\ traits'[n].history[Len(traits'[n].history)].value = w
                ELSE traits'[n] = traits[n]]_vars

C12_Witness ==
    /\ plast.op = "evolve"
    /\ \E n, m \in TraitNames :
          /\ traits[n].present
          /\ traits[n].value \notin Values
          /\ Len(traits[n].history) >= 1
          /\ traits[m].present
          /\ traits[m].history = <<>>

StepOf(did) ==
    CASE did = "recall"                        -> 1
      [] did \in {"get_traits", "generate"}    -> 2
      [] did = "record"                        -> 3
      [] did \in {"profile_state", "analyze"}  -> 4
      [] did \in {"process_update", "add_memory"} -> 5
      [] OTHER                                 -> 6

\* what the call has done so far is in the order Recall, Generate, Record,
\* Analyze, Apply, return: no step before an earlier one, none left out, none
\* done twice, and in Apply the personality updates before the memory writes
StepsInOrder ==
    call.op = "simulate_response" =>
    \A j \in 1..Len(call.steps) :
        /\ \A i \in 1..(j - 1) :
              /\ StepOf(call.steps[i]) <= StepOf(call.steps[j])
              /\ call.steps[i] = call.steps[j] => StepOf(call.steps[j]) = 5
              /\ ~(call.steps[i] = "add_memory" /\ call.steps[j] = "process_update")
        /\ \A step \in 1..4 :
              step < StepOf(call.steps[j])
              => \E i \in 1..(j - 1) : StepOf(call.steps[i]) = step

\* the running call's InteractionRecord is the last one of the history
RecordAppended ==
    /\ \E i \in 1..Len(call.steps) : call.steps[i] = "record"
    /\ interaction_history # <<>>
    /\ LET r == interaction_history[Len(interaction_history)]
       IN /\ r.user_input = call.user_input
          /\ r.response = call.response
          /\ r.context = call.context
          /\ r.relevant_memories = call.relevant_memories

\* C14: a simulate_response call does Recall, Generate, Record, Analyze and
\* Apply (personality updates, then memory writes) in this order; a trait is
\* updated or a memory written only once the call's InteractionRecord is
\* appended; and the call returns only when every item of Apply is done.
C14_FixedOrder ==
    /\ []StepsInOrder
    /\ [][(nextId' # nextId \/ traits' # traits \/ file' # file)
            => (call.status = "running" /\ RecordAppended)]_vars
    /\ [][(call'.status = "returned" /\ call.status = "running")
            => (call.todo = <<>> /\ RecordAppended
                /\ \E i \in 1..Len(call.steps) : call.steps[i] = "analyze")]_vars

C14_Witness ==
    /\ call.status = "returned"
    /\ call.steps = <<"recall", "get_traits", "generate", "record", "profile_state",
                      "analyze", "process_update", "add_memory", "add_memory", "return">>
    /\ Len(interaction_history) >= 1
    /\ Len(traits["openness"].history) >= 1
    /\ Len(memories) >= 1

\* what ends a call that failed: it raised, it handed out no response
Ended == call.status = "raised" /\ pc = "idle"

\* C15 as stated: whenever something failed in one of the steps of a
\* simulate_response call, the call does not return normally.
C15_AnyFailureRaises ==
    (call.op = "simulate_response" /\ call.status = "returned") => call.swallowed = {}

\* C15 amended: every failure raised to simulate_response (get_traits,
\* generate_response, analyze_interaction, add_memory's embedding) ends the
\* call in an error, without a retry; the failures the memory engine handles
\* itself (an embed or sort error inside get_relevant_memories, a failed file
\* write inside add_memory) are the only ones a returned call can have had.
C15_RaisedFailuresEndCall ==
    /\ [][/\ \A o \in LlmOutcomes :
                (SimGenerate(o) /\ (o # "ok" \/ call.context = CtxNone)) => Ended'
          /\ \A o \in LlmOutcomes, a \in Analyses :
                (SimAnalyze(o, a) /\ o # "ok") => Ended'
          /\ SimGetTraitsMissing => Ended'
          /\ SimAddMemoryEmbedFails => Ended'
          /\ (call.status = "running" /\ call'.status = "raised")
                => (call'.error # NoError /\ call'.response = call.response
                    /\ Len(call'.steps) = Len(call.steps) + 1)]_vars
    /\ []((call.op = "simulate_response" /\ call.status = "returned")
            => call.swallowed \subseteq {"recall", "save"})

C15_Witness ==
    /\ call.op = "simulate_response"
    /\ call.status = "raised"
    /\ call.failed_in = "analyze"
    /\ call.error = "ProviderError"
    /\ call.swallowed = {"recall"}
    /\ pc = "idle"

\* C16: a failure during Analyze or Apply undoes nothing: the failing step
\* leaves the interaction history, the traits, the collection and the file as
\* they were, and the call's InteractionRecord is still the last of the history.
C16_NoRollback ==
    [][(call.status = "running" /\ call'.status = "raised")
        => /\ interaction_history' = interaction_history
           /\ traits' = traits
           /\ last_updated' = last_updated
           /\ memories' = memories
           /\ file' = file
           /\ call'.failed_in \in {"analyze", "process_update", "add_memory"}
                => RecordAppended']_vars

C16_Witness ==
    /\ call.op = "simulate_response"
    /\ call.status = "raised"
    /\ call.failed_in = "add_memory"
    /\ \E i \in 1..Len(call.steps) : call.steps[i] = "process_update"
    /\ Len(call.steps) >= 2
    /\ call.steps[Len(call.steps) - 1] = "add_memory"
    /\ RecordAppended
    /\ Len(traits["openness"].history) >= 1
    /\ Len(memories) >= 1
    /\ file.status = "ok"

\* C17: generate_response without a context returns a response text
\* whenever the language model's generate call succeeds, on its own and
\* inside simulate_response.
C17_AbsentContextAccepted ==
    [][/\ \A prompt \in Contents :
            CallGenerateResponse(prompt, CtxNone, "ok")
            => (call'.status = "returned" /\ call'.response = StyledResponse)
       /\ (SimGenerate("ok") /\ call.context = CtxNone)
            => (call'.status = "running" /\ call'.response = StyledResponse)]_vars
\* the lines of a text that are not blank, stripped
NonBlankLines(text) ==
    LET lines == Split(text, "\n")
    IN SelectSeq([i \in 1..Len(lines) |-> Strip(lines[i])], LAMBDA l : l # <<>>)

IsSectionLine(l) == EndsWith(l, <<":">>)
IsItemLine(l) == ~IsSectionLine(l) /\ StartsWith(l, <<"-", " ">>)
SectionName(l) == StrLower(SubSeq(l, 1, Len(l) - 1))

SectionNames(L) == {SectionName(L[k]) : k \in {k \in 1..Len(L) : IsSectionLine(L[k])}}

\* the last line that starts a section of this name, and where it ends
LastStart(L, name) ==
    CHOOSE k \in 1..Len(L) :
        /\ IsSectionLine(L[k]) /\ SectionName(L[k]) = name
        /\ \A j \in (k + 1)..Len(L) : ~(IsSectionLine(L[j]) /\ SectionName(L[j]) = name)

SectionEnd(L, k) ==
    IF \E j \in (k + 1)..Len(L) : IsSectionLine(L[j])
    THEN CHOOSE j \in (k + 1)..Len(L) :
            IsSectionLine(L[j]) /\ \A i \in (k + 1)..(j - 1) : ~IsSectionLine(L[i])
    ELSE Len(L) + 1

\* the items of the section that starts at line k
ItemsOf(L, k) ==
    LET body  == SubSeq(L, k + 1, SectionEnd(L, k) - 1)
        items == SelectSeq(body, IsItemLine)
    IN [i \in 1..Len(items) |-> SubSeq(items[i], 3, Len(items[i]))]

\* the mapping the claim describes, restricted to a set of names
SectionsNamed(text, names) ==
    LET L == NonBlankLines(text)
    IN [n \in names |-> ItemsOf(L, LastStart(L, n))]

AllNames(text) == SectionNames(NonBlankLines(text))

\* {foo: [a, b], bar: [c]}
ExampleSections ==
    [n \in {<<"f", "o", "o">>, <<"b", "a", "r">>} |->
        IF n = <<"f", "o", "o">> THEN <<<<"a">>, <<"b">>>> ELSE <<<<"c">>>>]

Parsed == ret.op \in {"analyze_interaction", "_parse_reflection_sections"}

\* C18 as stated: the parser returns one section for every line ending in
\* ':' (named by the lower-cased line without the colon) holding the items
\* that follow it, skips blank lines and drops items before the first section.
C18_ParserMapping ==
    Parsed => ret.value = SectionsNamed(input, AllNames(input))

\* C18 amended: as stated, except that a section whose name is empty (the
\* line is ':' alone) is left out of the mapping with its items; the example
\* yields {foo: [a, b], bar: [c]} and a text without a line ending in ':'
\* yields the empty mapping.
C18_ParserMappingNamed ==
    Parsed =>
        /\ ret.value = SectionsNamed(input, AllNames(input) \ {<<>>})
        /\ input = ExampleText => ret.value = ExampleSections
        /\ AllNames(input) = {} => ret.value = EmptyDict

C18_Witness ==
    /\ Parsed
    /\ input = ExampleText
    /\ ret.value = ExampleSections
Adjusted == ret.op = "_adjust_response_style"

\* whether the rule of a trait fires for the call's arguments
Fires(name, level) ==
    LET v == input.personality_traits[name]
    IN IF v = NoValue THEN Unit \div 2 > level ELSE v > level

FormalityFires == Fires("conscientiousness", input.style_config.formality_level)
EnthusiasmFires == Fires("extraversion", input.style_config.enthusiasm_level)
PolitenessFires == Fires("agreeableness", input.style_config.politeness_level)

RECURSIVE CasualReplaced(_)
\* the text with every casual word replaced, in one pass from the left
CasualReplaced(s) ==
    IF s = <<>> THEN <<>>
    ELSE IF StartsWith(s, <<"g", "o", "n", "n", "a">>)
         THEN <<"g", "o", "i", "n", "g", " ", "t", "o">> \o CasualReplaced(SubSeq(s, 6, Len(s)))
    ELSE IF StartsWith(s, <<"w", "a", "n", "n", "a">>)
         THEN <<"w", "a", "n", "t", " ", "t", "o">> \o CasualReplaced(SubSeq(s, 6, Len(s)))
    ELSE IF StartsWith(s, <<"y", "e", "a", "h">>)
         THEN <<"y", "e", "s">> \o CasualReplaced(SubSeq(s, 5, Len(s)))
    ELSE IF StartsWith(s, <<"n", "o", "p", "e">>)
         THEN <<"n", "o">> \o CasualReplaced(SubSeq(s, 5, Len(s)))
    ELSE <<Head(s)>> \o CasualReplaced(Tail(s))

RECURSIVE MarksDoubled(_)
\* every '.' and every '!' turned into '!!'
MarksDoubled(s) ==
    IF s = <<>> THEN <<>>
    ELSE (IF Head(s) \in {".", "!"} THEN <<"!", "!">> ELSE <<Head(s)>>)
         \o MarksDoubled(Tail(s))

Intensified(s) ==
    LET d == MarksDoubled(s)
    IN IF d # <<>> /\ d[Len(d)] = "!" THEN d ELSE Append(d, "!")

Hedged(s) ==
    LET low == StrLower(s)
    IN IF \E w \in {<<"p", "l", "e", "a", "s", "e">>, <<"t", "h", "a", "n", "k">>, <<"a", "p", "p", "r", "e", "c", "i", "a", "t", "e">>} : Contains(low, w)
       THEN <<"I", " ", "t", "h", "i", "n", "k", " ">> \o low
       ELSE <<"I", " ", "t", "h", "i", "n", "k", " ">> \o low \o <<" ", "T", "h", "a", "n", "k", " ", "y", "o", "u", " ", "f", "o", "r", " ", "a", "s", "k", "i", "n", "g", "!">>

\* the three rules applied in the order formality, enthusiasm, politeness
InOrder(s) ==
    LET f == IF FormalityFires THEN CasualReplaced(s) ELSE s
        e == IF EnthusiasmFires THEN Intensified(f) ELSE f
    IN IF PolitenessFires THEN Hedged(e) ELSE e

\* C19: the adjustment applies formality, then enthusiasm, then politeness,
\* each only when its trait is strictly above its level (0.5 for an absent
\* trait); formality alone replaces the casual words and changes nothing
\* else ("gonna do it." becomes "going to do it."); with no rule firing the
\* output is the input.
C19_StyleRules ==
    Adjusted =>
        /\ ret.value = InOrder(input.response)
        /\ (FormalityFires /\ ~EnthusiasmFires /\ ~PolitenessFires)
              => ret.value = CasualReplaced(input.response)
        /\ (FormalityFires /\ ~EnthusiasmFires /\ ~PolitenessFires
                /\ input.response = ExampleResponse)
              => ret.value = <<"g", "o", "i", "n", "g", " ", "t", "o", " ", "d", "o", " ", "i", "t", ".">>
        /\ (~FormalityFires /\ ~EnthusiasmFires /\ ~PolitenessFires)
              => ret.value = input.response

C19_Witness ==
    /\ Adjusted
    /\ input.response = ExampleResponse
    /\ input.personality_traits =
          [n \in StyleTraits |->
              IF n = "conscientiousness" THEN (9 * Unit) \div 10 ELSE NoValue]
    /\ input.style_config.formality_level = (7 * Unit) \div 10
    /\ ret.value = <<"g", "o", "i", "n", "g", " ", "t", "o", " ", "d", "o", " ", "i", "t", ".">>
ReadOps == {"get_recent_memories", "get_memories_for_reflection", "get_relevant_memories"}

\* C20: a read operation of MemorySystem (get_recent_memories,
\* get_memories_for_reflection, get_relevant_memories), with or without a
\* type filter, leaves the stored collection as it was: the same records in
\* the same order.
C20_ReadsLeaveCollection ==
    [][last'.op \in ReadOps => memories' = memories]_vars
\* earlier is a prefix of later
IsPrefix(earlier, later) ==
    Len(earlier) <= Len(later) /\ SubSeq(later, 1, Len(earlier)) = earlier

\* C25: the personality set is append-only: over add_trait (also with a name
\* that exists), update_trait and evolve no trait is removed and no history
\* gets shorter or loses an earlier entry, and a non-empty history ends with
\* the trait's current value.
C25_AppendOnly ==
    /\ [][\A n \in TraitNames :
            traits[n].present =>
                /\ traits'[n].present
                /\ IsPrefix(traits[n].history, traits'[n].history)]_vars
    /\ [](\A n \in TraitNames :
            (traits[n].present /\ traits[n].history # <<>>) =>
                traits[n].history[Len(traits[n].history)].value = traits[n].value)
\* the call appended a record to MemorySystem.memories
AddedRecord == \E i \in 1..Len(call.steps) : call.steps[i] = "add_memory"

\* C24: every simulate_response call that returns normally has added at
\* least one record to the memory store during the call, whatever sections
\* the analysis of the interaction produced.
C24_RecordAfterEveryInteraction ==
    (call.op = "simulate_response" /\ call.status = "returned") => AddedRecord
\* C21: under any interleaving of simulate_response calls on one orchestrator
\* interaction_history only grows at its end, and the interaction_id a call
\* returns, like the one stamped on the episodic memories it forms, is the
\* index of the record that same call appended.
C21_IdIsOwnRecord ==
    /\ [][IsPrefix(interaction_history, interaction_history')]_vars
    /\ [](call.op = "simulate_response" =>
            /\ call.status = "returned" => call.interaction_id = call.record_index
            /\ \A i \in 1..Len(call.stamped) : call.stamped[i] = call.record_index)
\* the tasks whose add_memory call has ended
DoneTasks == {t \in Tasks : tasks[t].pc = "done"}

\* calls were made, none is in flight and all of them returned
AllAddsReturned ==
    /\ DoneTasks # {}
    /\ \A t \in Tasks : tasks[t].pc # "embed"
    /\ \A t \in DoneTasks : tasks[t].call.status = "returned"

\* C22: add_memory calls interleaved at their awaits lose no update: once all
\* have returned every call's record is in the collection (when their number
\* is within max_memories) and the file holds the collection, and after no
\* call was the collection larger than max_memories.
C22_NoLostUpdate ==
    /\ AddReturned => Len(memories) <= max_memories
    /\ AllAddsReturned =>
          /\ Cardinality(DoneTasks) <= max_memories =>
                \A t \in DoneTasks : tasks[t].call.record \in IdsOf(memories)
          /\ file.status = "ok"
          /\ file.data = JsonDump(memories)
\* a process_interaction call has just returned
Processed == srv'.n # srv.n /\ srv'.status = "returned"

\* step a comes before step b in the order the call ran them
RanBefore(steps, a, b) ==
    \E i, j \in 1..Len(steps) : i < j /\ steps[i] = a /\ steps[j] = b

\* C23: process_interaction runs sentiment analysis, memory recall, response
\* generation, memory write, trait update in this order: the search and the
\* generation come before the write and before the evolve, so the response
\* is made from the traits and the memories as they were before the call.
C23_RespondBeforeWrite ==
    [][Processed =>
        /\ \A early \in {"recall", "generate"}, late \in {"write", "evolve"} :
              RanBefore(srv'.steps, early, late)
        /\ RanBefore(srv'.steps, "sentiment", "recall")
        /\ srv'.personality_traits =
              [n \in TraitNames |-> IF traits[n].present THEN traits[n].value ELSE NoValue]
        /\ srv'.relevant_memories \subseteq IdsOf(db)]_vars
\* the target the claim gives a trait: the emotional value for the three
\* emotional keys, else the caller's value, else 0.5
TargetOf(name, context, emotional_context) ==
    CASE name \in {"neuroticism", "agreeableness", "extraversion"} -> emotional_context[name]
      [] context[name] # NoTarget -> context[name]
      [] OTHER -> Unit \div 2

\* no farther from 0.5 than before, and on the same side
TowardHalf(before, after) ==
    \/ before >= Unit \div 2 /\ after >= Unit \div 2 /\ after <= before
    \/ before <= Unit \div 2 /\ after <= Unit \div 2 /\ after >= before

NoProviderFailure == call.error # "ProviderError" /\ "recall" \notin call.swallowed

\* C27: route_interaction runs simulate_response for 'simulate',
\* reflect_chain for 'reflect' and update_profile for 'update', which returns
\* {type: 'update', status: 'success'} whenever the language-model calls
\* succeed; any other type ends in an error and changes neither the
\* interaction history nor the memory store nor the traits.
C27_Dispatch ==
    /\ [](/\ call.route = "simulate" => call.op = "simulate_response"
          /\ call.route = "reflect" => call.op = "reflect_chain"
          /\ call.route = "update" =>
                /\ call.op = "update_profile"
                /\ NoProviderFailure =>
                      /\ call.status = "returned"
                      /\ call.result = [type |-> "update", status |-> "success"]
          /\ call.route \notin {"none", "simulate", "reflect", "update"} =>
                call.status = "raised")
    /\ [][call'.route \notin {"none", "simulate", "reflect", "update"} =>
            UNCHANGED <<interaction_history, memories, file, traits>>]_vars
====
